---- MODULE Spec2Model ----
(***************************************************************************)
(* A model of tockloader's TBF header/footer codec (tockloader/tbfh.py).   *)
(*                                                                         *)
(* Byte buffers are sequences of naturals in 0..255.  A Python object is a *)
(* record: a TLV is [cls, a] where a maps the names of the attributes the  *)
(* instance has to their values; the header object is the variables        *)
(* version, valid, app, modified, fields, tlvs.  A call that raises is     *)
(* recorded in err with the name of the exception.                         *)
(*                                                                         *)
(* Integers of the model stay below 2^31, so the upper limit of a 32-bit   *)
(* struct field is never exceeded; the lower limit (a negative value) and  *)
(* the 16-bit limits are checked as struct.pack checks them.               *)
(***************************************************************************)
EXTENDS Integers, Sequences, FiniteSets, TLC

VARIABLES
    pc,          \* where the caller is: "new", "header", "raised", "packed", "footer"
    full_buffer, \* the caller's buffer handed to TBFHeader(buffer)
    version,     \* self.version (Unset until assigned)
    valid,       \* self.valid
    app,         \* self.app
    modified,    \* self.modified
    fields,      \* self.fields
    tlvs,        \* self.tlvs
    checksum,    \* the local `checksum` TBFHeader.__init__ compares (Unset if not computed)
    err,         \* exception raised by the last call, "none" if it returned
    last,        \* the last call made: [op, args, before: the object before the call]
    nops,        \* number of mutator calls made so far
    binary,      \* what the last get_binary() returned (NoCall if not called)
    app_binary,  \* the app_binary handed to TBFFooter (None if not given)
    footer_buffer, \* the buffer handed to TBFFooter (None before)
    footer_tlvs  \* TBFFooter.tlvs

vars == <<pc, full_buffer, version, valid, app, modified, fields, tlvs, checksum,
          err, last, nops, binary, app_binary, footer_buffer, footer_tlvs>>

\* the value of an attribute that was never assigned
Unset == -1
\* Python's None where a byte buffer is expected
None == <<-1>>
\* no get_binary() call was made yet
NoCall == [err |-> "nocall", val |-> <<>>]

----------------------------------------------------------------------------
(* Python and struct primitives *)

roundup(x, to) == IF x % to = 0 THEN x ELSE (x + to) - (x % to)

Min(a, b) == IF a < b THEN a ELSE b

\* buffer[i:j] with Python's clamping of the slice bounds (0-based, j exclusive)
Slice(b, i, j) == SubSeq(b, Min(i, Len(b)) + 1, Min(j, Len(b)))

\* buffer[i:]
Drop(b, i) == SubSeq(b, Min(i, Len(b)) + 1, Len(b))

\* b"\0" * n
Zeros(n) == [i \in 1..n |-> 0]

RECURSIVE BitXor(_, _)
\* a ^ b on non-negative integers
BitXor(a, b) ==
    IF a = 0 THEN b
    ELSE IF b = 0 THEN a
    ELSE (((a % 2) + (b % 2)) % 2) + 2 * BitXor(a \div 2, b \div 2)

RECURSIVE BitOr(_, _)
\* a | b on non-negative integers
BitOr(a, b) ==
    IF a = 0 THEN b
    ELSE IF b = 0 THEN a
    ELSE (IF a % 2 = 1 \/ b % 2 = 1 THEN 1 ELSE 0) + 2 * BitOr(a \div 2, b \div 2)

RECURSIVE BitAndNot(_, _)
\* a & ~m on non-negative integers
BitAndNot(a, m) ==
    IF a = 0 THEN 0
    ELSE (IF a % 2 = 1 /\ m % 2 = 0 THEN 1 ELSE 0) + 2 * BitAndNot(a \div 2, m \div 2)

RECURSIVE BitAnd(_, _)
\* a & b on non-negative integers
BitAnd(a, b) ==
    IF a = 0 \/ b = 0 THEN 0
    ELSE (IF a % 2 = 1 /\ b % 2 = 1 THEN 1 ELSE 0) + 2 * BitAnd(a \div 2, b \div 2)

\* struct.pack("<H", v) and struct.pack("<I", v): the bytes, when v is in range
LE16(v) == <<v % 256, (v \div 256) % 256>>
LE32(v) == <<v % 256, (v \div 256) % 256, (v \div 65536) % 256, (v \div 16777216) % 256>>

\* the range check struct.pack makes on an "H" and on an "I" argument
FitsH(v) == v >= 0 /\ v <= 65535
FitsI(v) == v >= 0

\* struct.unpack("<H", b[i:i+2])[0] and struct.unpack("<I", b[i:i+4])[0], i 0-based
U16(b, i) == b[i + 1] + 256 * b[i + 2]
U32(b, i) == b[i + 1] + 256 * b[i + 2] + 65536 * b[i + 3] + 16777216 * b[i + 4]

\* struct.pack_into("<I", buf, 12, v)
PackInto32(buf, off, v) ==
    [i \in 1..Len(buf) |-> IF i > off /\ i <= off + 4 THEN LE32(v)[i - off] ELSE buf[i]]

\* the result of a call that may raise: the value, or the exception's name
Ok(v) == [err |-> "none", val |-> v]
Raise(e) == [err |-> e, val |-> <<>>]

----------------------------------------------------------------------------
(* bytes.decode("utf-8") and str.encode("utf-8"); a string is the sequence  *)
(* of its code points                                                      *)

Cont(b, i) == i <= Len(b) /\ b[i] >= 128 /\ b[i] <= 191

\* the number of bytes of the well-formed UTF-8 sequence that starts b, 0 if none does
Utf8Len(b) ==
    LET c == b[1] IN
    IF c < 128 THEN 1
    ELSE IF c >= 194 /\ c <= 223 THEN (IF Cont(b, 2) THEN 2 ELSE 0)
    ELSE IF c >= 224 /\ c <= 239 THEN
        (IF Cont(b, 2) /\ Cont(b, 3)
            /\ (c = 224 => b[2] >= 160)
            /\ (c = 237 => b[2] <= 159) THEN 3 ELSE 0)
    ELSE IF c >= 240 /\ c <= 244 THEN
        (IF Cont(b, 2) /\ Cont(b, 3) /\ Cont(b, 4)
            /\ (c = 240 => b[2] >= 144)
            /\ (c = 244 => b[2] <= 143) THEN 4 ELSE 0)
    ELSE 0

Utf8Point(b, n) ==
    IF n = 1 THEN b[1]
    ELSE IF n = 2 THEN (b[1] - 192) * 64 + (b[2] - 128)
    ELSE IF n = 3 THEN (b[1] - 224) * 4096 + (b[2] - 128) * 64 + (b[3] - 128)
    ELSE (b[1] - 240) * 262144 + (b[2] - 128) * 4096 + (b[3] - 128) * 64 + (b[4] - 128)

RECURSIVE utf8_decode(_)
\* buffer.decode("utf-8"): Ok(code points) or UnicodeDecodeError
utf8_decode(b) ==
    IF b = <<>> THEN Ok(<<>>)
    ELSE LET n == Utf8Len(b) IN
         IF n = 0 THEN Raise("UnicodeDecodeError")
         ELSE LET rest == utf8_decode(Drop(b, n)) IN
              IF rest.err # "none" THEN rest
              ELSE Ok(<<Utf8Point(b, n)>> \o rest.val)

Utf8Bytes(cp) ==
    IF cp < 128 THEN <<cp>>
    ELSE IF cp < 2048 THEN <<192 + (cp \div 64), 128 + (cp % 64)>>
    ELSE IF cp < 65536 THEN <<224 + (cp \div 4096), 128 + ((cp \div 64) % 64), 128 + (cp % 64)>>
    ELSE <<240 + (cp \div 262144), 128 + ((cp \div 4096) % 64), 128 + ((cp \div 64) % 64), 128 + (cp % 64)>>

RECURSIVE utf8_encode(_)
\* s.encode("utf-8"): Ok(bytes) or UnicodeEncodeError (a lone surrogate)
utf8_encode(s) ==
    IF s = <<>> THEN Ok(<<>>)
    ELSE IF s[1] >= 55296 /\ s[1] <= 57343 THEN Raise("UnicodeEncodeError")
    ELSE LET rest == utf8_encode(Tail(s)) IN
         IF rest.err # "none" THEN rest
         ELSE Ok(Utf8Bytes(s[1]) \o rest.val)

----------------------------------------------------------------------------
(* struct.pack of a format string and its arguments *)

RECURSIVE StructPack(_, _)
\* struct.pack("<" + fmt, *vals), fmt a sequence of "H" and "I"
StructPack(fmt, vals) ==
    IF Len(fmt) # Len(vals) THEN Raise("struct.error")
    ELSE IF fmt = <<>> THEN Ok(<<>>)
    ELSE IF fmt[1] = "H" /\ ~FitsH(vals[1]) THEN Raise("struct.error")
    ELSE IF fmt[1] = "I" /\ ~FitsI(vals[1]) THEN Raise("struct.error")
    ELSE LET rest == StructPack(Tail(fmt), Tail(vals)) IN
         IF rest.err # "none" THEN rest
         ELSE Ok((IF fmt[1] = "H" THEN LE16(vals[1]) ELSE LE32(vals[1])) \o rest.val)

\* a + b on the results of two calls: the first exception wins
Cat(r1, r2) ==
    IF r1.err # "none" THEN r1
    ELSE IF r2.err # "none" THEN r2
    ELSE Ok(r1.val \o r2.val)

----------------------------------------------------------------------------
(* The TLV classes *)

HEADER_TYPE_MAIN == 1
HEADER_TYPE_WRITEABLE_FLASH_REGIONS == 2
HEADER_TYPE_PACKAGE_NAME == 3
HEADER_TYPE_PIC_OPTION_1 == 4
HEADER_TYPE_FIXED_ADDRESSES == 5
HEADER_TYPE_KERNEL_VERSION == 8
HEADER_TYPE_PROGRAM == 9
FOOTER_TYPE_CREDENTIALS == 128

\* the class attribute TLVID of each class
ClassTLVID(cls) ==
    CASE cls = "Main" -> HEADER_TYPE_MAIN
      [] cls = "Program" -> HEADER_TYPE_PROGRAM
      [] cls = "WriteableFlashRegions" -> HEADER_TYPE_WRITEABLE_FLASH_REGIONS
      [] cls = "PackageName" -> HEADER_TYPE_PACKAGE_NAME
      [] cls = "PicOption1" -> HEADER_TYPE_PIC_OPTION_1
      [] cls = "FixedAddress" -> HEADER_TYPE_FIXED_ADDRESSES
      [] cls = "KernelVersion" -> HEADER_TYPE_KERNEL_VERSION
      [] cls = "Credentials" -> FOOTER_TYPE_CREDENTIALS

\* self.TLVID: the instance attribute when one was set, else the class attribute
TLVID(tlv) == IF "TLVID" \in DOMAIN tlv.a THEN tlv.a["TLVID"] ELSE ClassTLVID(tlv.cls)

\* tlv.get_tlvid()
get_tlvid(tlv) == IF tlv.cls = "Unknown" THEN tlv.a["tipe"] ELSE TLVID(tlv)

MainFields == <<"init_fn_offset", "protected_size", "minimum_ram_size">>
ProgramFields == <<"init_fn_offset", "protected_size", "minimum_ram_size",
                   "binary_end_offset", "app_version">>
PicOption1Fields == <<"text_offset", "data_offset", "data_size", "bss_memory_offset",
                      "bss_size", "relocation_data_offset", "relocation_data_size",
                      "got_offset", "got_size", "minimum_stack_length">>
FixedAddressFields == <<"fixed_address_ram", "fixed_address_flash">>
KernelVersionFields == <<"kernel_major", "kernel_minor">>

\* the attributes a fixed-layout constructor sets: valid, and the unpacked
\* words (of `width` bytes each) when the buffer has the expected length
FixedAttrs(buffer, names, width) ==
    IF Len(buffer) = width * Len(names)
    THEN [n \in {"valid"} \cup {names[i] : i \in 1..Len(names)} |->
            IF n = "valid" THEN TRUE
            ELSE LET i == CHOOSE k \in 1..Len(names) : names[k] = n IN
                 IF width = 4 THEN U32(buffer, 4 * (i - 1)) ELSE U16(buffer, 2 * (i - 1))]
    ELSE [n \in {"valid"} |-> FALSE]

TBFTLVUnknown(tipe, buffer) == [cls |-> "Unknown", a |-> [tipe |-> tipe, buffer |-> buffer]]
TBFTLVMain(buffer) == [cls |-> "Main", a |-> FixedAttrs(buffer, MainFields, 4)]
TBFTLVProgram(buffer) == [cls |-> "Program", a |-> FixedAttrs(buffer, ProgramFields, 4)]
TBFTLVPicOption1(buffer) == [cls |-> "PicOption1", a |-> FixedAttrs(buffer, PicOption1Fields, 4)]
TBFTLVFixedAddress(buffer) == [cls |-> "FixedAddress", a |-> FixedAttrs(buffer, FixedAddressFields, 4)]
TBFTLVKernelVersion(buffer) == [cls |-> "KernelVersion", a |-> FixedAttrs(buffer, KernelVersionFields, 2)]

\* valid stays False; the regions are set only for a multiple of 8 bytes
TBFTLVWriteableFlashRegions(buffer) ==
    [cls |-> "WriteableFlashRegions",
     a |-> IF Len(buffer) % 8 = 0
           THEN [valid |-> FALSE,
                 writeable_flash_regions |->
                    [i \in 1..(Len(buffer) \div 8) |->
                        <<U32(buffer, 8 * (i - 1)), U32(buffer, 8 * (i - 1) + 4)>>]]
           ELSE [valid |-> FALSE]]

\* the constructor raises when the bytes are not UTF-8
TBFTLVPackageName(buffer) ==
    LET d == utf8_decode(buffer) IN
    IF d.err # "none" THEN d
    ELSE Ok([cls |-> "PackageName", a |-> [package_name |-> d.val, valid |-> TRUE]])

\* struct.pack("<HH" + fmt, self.TLVID, length, self.<names>...)
PackFixed(tlv, length, fmt, names) ==
    IF \E i \in 1..Len(names) : names[i] \notin DOMAIN tlv.a THEN Raise("AttributeError")
    ELSE StructPack(<<"H", "H">> \o fmt,
                    <<TLVID(tlv), length>> \o [i \in 1..Len(names) |-> tlv.a[names[i]]])

RECURSIVE PackRegions(_)
PackRegions(wfrs) ==
    IF wfrs = <<>> THEN Ok(<<>>)
    ELSE Cat(StructPack(<<"I", "I">>, wfrs[1]), PackRegions(Tail(wfrs)))

TBFTLVUnknown_pack(tlv) ==
    IF ~({"tipe", "buffer"} \subseteq DOMAIN tlv.a) THEN Raise("AttributeError")
    ELSE LET head == StructPack(<<"H", "H">>, <<tlv.a["tipe"], Len(tlv.a["buffer"])>>)
             out == Cat(head, Ok(tlv.a["buffer"]))
         IN  IF out.err # "none" THEN out
             ELSE Ok(out.val \o Zeros((4 - (Len(out.val) % 4)) % 4))

TBFTLVWriteableFlashRegions_pack(tlv) ==
    IF "writeable_flash_regions" \notin DOMAIN tlv.a THEN Raise("AttributeError")
    ELSE Cat(StructPack(<<"H", "H">>,
                        <<TLVID(tlv), Len(tlv.a["writeable_flash_regions"]) * 8>>),
             PackRegions(tlv.a["writeable_flash_regions"]))

TBFTLVPackageName_pack(tlv) ==
    IF "package_name" \notin DOMAIN tlv.a THEN Raise("AttributeError")
    ELSE LET encoded_name == utf8_encode(tlv.a["package_name"]) IN
         IF encoded_name.err # "none" THEN encoded_name
         ELSE LET n == Len(encoded_name.val)
                  out == Cat(StructPack(<<"H", "H">>, <<TLVID(tlv), n>>), encoded_name)
                  padding_length == roundup(n, 4) - n
              IN  IF out.err # "none" THEN out
                  ELSE Ok(out.val \o (IF padding_length > 0 THEN Zeros(padding_length) ELSE <<>>))

TBFFooterTLVCredentials_pack(tlv) ==
    IF ~({"buffer", "credentials_type"} \subseteq DOMAIN tlv.a) THEN Raise("AttributeError")
    ELSE Cat(StructPack(<<"H", "H", "I">>,
                        <<TLVID(tlv), 4 + Len(tlv.a["buffer"]), tlv.a["credentials_type"]>>),
             Ok(tlv.a["buffer"]))

\* tlv.pack(), by the class of tlv
pack(tlv) ==
    CASE tlv.cls = "Unknown" -> TBFTLVUnknown_pack(tlv)
      [] tlv.cls = "Main" -> PackFixed(tlv, 12, <<"I", "I", "I">>, MainFields)
      [] tlv.cls = "Program" -> PackFixed(tlv, 20, <<"I", "I", "I", "I", "I">>, ProgramFields)
      [] tlv.cls = "WriteableFlashRegions" -> TBFTLVWriteableFlashRegions_pack(tlv)
      [] tlv.cls = "PackageName" -> TBFTLVPackageName_pack(tlv)
      [] tlv.cls = "PicOption1" ->
            PackFixed(tlv, 40, <<"I", "I", "I", "I", "I", "I", "I", "I", "I", "I">>,
                      PicOption1Fields)
      [] tlv.cls = "FixedAddress" -> PackFixed(tlv, 8, <<"I", "I">>, FixedAddressFields)
      [] tlv.cls = "KernelVersion" -> PackFixed(tlv, 4, <<"H", "H">>, KernelVersionFields)
      [] tlv.cls = "Credentials" -> TBFFooterTLVCredentials_pack(tlv)

\* tlv.get_size(): len(self.pack())
get_size(tlv) ==
    LET p == pack(tlv) IN IF p.err # "none" THEN p ELSE Ok(Len(p.val))

----------------------------------------------------------------------------
(* TBFHeader: lookups, the checksum, the parser and its serializer.  A      *)
(* header object passed to an operator is the record                       *)
(* [version, valid, app, modified, fields, tlvs].                           *)

RECURSIVE XorWords(_, _, _)
\* the loop of _checksum: checksum ^= struct.unpack("<I", buffer[i : i + 4])[0]
XorWords(buffer, i, acc) ==
    IF i >= Len(buffer) THEN acc
    ELSE XorWords(buffer, i + 4, BitXor(acc, U32(buffer, i)))

\* TBFHeader._checksum(buffer)
_checksum(buffer) ==
    LET padding == Len(buffer) % 4
        padded == IF padding # 0 THEN buffer \o Zeros(4 - padding) ELSE buffer
    IN  XorWords(padded, 0, 0)

\* TBFHeader._get_tlv(tlvid) as the position of the TLV it returns in
\* self.tlvs: the first one with that id; 0 stands for None
_get_tlv(self_tlvs, tlvid) ==
    IF \E i \in 1..Len(self_tlvs) : get_tlvid(self_tlvs[i]) = tlvid
    THEN CHOOSE i \in 1..Len(self_tlvs) :
            /\ get_tlvid(self_tlvs[i]) = tlvid
            /\ \A j \in 1..(i - 1) : get_tlvid(self_tlvs[j]) # tlvid
    ELSE 0

\* TBFHeader._get_binary_tlv(), as a position in self.tlvs (0 for None)
_get_binary_tlv(self_tlvs) ==
    IF _get_tlv(self_tlvs, HEADER_TYPE_PROGRAM) = 0
    THEN _get_tlv(self_tlvs, HEADER_TYPE_MAIN)
    ELSE _get_tlv(self_tlvs, HEADER_TYPE_PROGRAM)

V1Fields == <<"total_size", "entry_offset", "rel_data_offset", "rel_data_size",
              "text_offset", "text_size", "got_offset", "got_size", "data_offset",
              "data_size", "bss_mem_offset", "bss_mem_size", "min_stack_len",
              "min_app_heap_len", "min_kernel_heap_len", "package_name_offset",
              "package_name_size", "checksum">>

NoFields == [n \in {} |-> 0]

\* the TLV, if any, that one pass of the parsing loop appends for (tipe, length)
ParsedTLV(tipe, length, buffer, remaining) ==
    CASE tipe = HEADER_TYPE_MAIN ->
            IF remaining >= 12 /\ length = 12
            THEN Ok(<<TBFTLVMain(Slice(buffer, 0, 12))>>) ELSE Ok(<<>>)
      [] tipe = HEADER_TYPE_PROGRAM ->
            IF remaining >= 20 /\ length = 20
            THEN Ok(<<TBFTLVProgram(Slice(buffer, 0, 20))>>) ELSE Ok(<<>>)
      [] tipe = HEADER_TYPE_WRITEABLE_FLASH_REGIONS ->
            IF remaining >= length
            THEN Ok(<<TBFTLVWriteableFlashRegions(Slice(buffer, 0, length))>>) ELSE Ok(<<>>)
      [] tipe = HEADER_TYPE_PACKAGE_NAME ->
            IF remaining >= length
            THEN LET t == TBFTLVPackageName(Slice(buffer, 0, length)) IN
                 IF t.err # "none" THEN t ELSE Ok(<<t.val>>)
            ELSE Ok(<<>>)
      [] tipe = HEADER_TYPE_PIC_OPTION_1 ->
            IF remaining >= 40 /\ length = 40
            THEN Ok(<<TBFTLVPicOption1(Slice(buffer, 0, 40))>>) ELSE Ok(<<>>)
      [] tipe = HEADER_TYPE_FIXED_ADDRESSES ->
            IF remaining >= 8 /\ length = 8
            THEN Ok(<<TBFTLVFixedAddress(Slice(buffer, 0, 8))>>) ELSE Ok(<<>>)
      [] tipe = HEADER_TYPE_KERNEL_VERSION ->
            IF remaining >= 4 /\ length = 4
            THEN Ok(<<TBFTLVKernelVersion(Slice(buffer, 0, 4))>>) ELSE Ok(<<>>)
      [] OTHER -> Ok(<<TBFTLVUnknown(tipe, Slice(buffer, 0, length))>>)

RECURSIVE ParseTLVs(_, _, _)
\* the loop `while remaining >= 4` of TBFHeader.__init__ from the state
\* (buffer, remaining, self.tlvs): the final self.tlvs, or the exception
ParseTLVs(buffer, remaining, self_tlvs) ==
    IF remaining < 4 THEN Ok(self_tlvs)
    ELSE IF Len(Slice(buffer, 0, 4)) < 4 THEN Raise("struct.error")
    ELSE LET tipe == U16(buffer, 0)
             length == U16(buffer, 2)
             rest == Drop(buffer, 4)
             new == ParsedTLV(tipe, length, rest, remaining - 4)
         IN  IF new.err # "none" THEN new
             ELSE ParseTLVs(Drop(rest, roundup(length, 4)),
                            remaining - 4 - roundup(length, 4),
                            self_tlvs \o new.val)

\* the object as __init__ first sets it up
NewHeader ==
    [err |-> "none", version |-> Unset, valid |-> FALSE, app |-> FALSE,
     modified |-> FALSE, fields |-> NoFields, tlvs |-> <<>>, checksum |-> Unset]

\* the version-1 branch of TBFHeader.__init__
TBFHeader_v1(full) ==
    LET buffer == Drop(full, 4)
        sum == _checksum(Slice(full, 0, 72))
        flds == [n \in {V1Fields[i] : i \in 1..18} |->
                    U32(buffer, 4 * ((CHOOSE k \in 1..18 : V1Fields[k] = n) - 1))]
    IN  [NewHeader EXCEPT !.version = 1, !.fields = flds, !.app = TRUE,
                          !.checksum = sum, !.valid = (sum = flds["checksum"])]

\* TBFHeader_v2 computing the checksum over the header as stored, its
\* checksum field included
TBFHeader_v2_keepsum(full) ==
    LET flds == [header_size |-> U16(full, 2), total_size |-> U32(full, 4),
                 flags |-> U32(full, 8), checksum |-> U32(full, 12)]
        buffer == Drop(full, 16)
        h0 == [NewHeader EXCEPT !.version = 2, !.fields = flds]
    IN  IF Len(full) >= flds["header_size"] /\ flds["header_size"] >= 16
        THEN LET sum == _checksum(Slice(full, 0, flds["header_size"]))
                 remaining == flds["header_size"] - 16
             IN  IF remaining > 0 /\ Len(buffer) >= remaining
                 THEN LET parsed == ParseTLVs(buffer, remaining, <<>>) IN
                      IF parsed.err # "none"
                      THEN [h0 EXCEPT !.err = parsed.err, !.app = TRUE, !.checksum = sum]
                      ELSE [h0 EXCEPT !.app = TRUE, !.tlvs = parsed.val, !.checksum = sum,
                                      !.valid = TRUE]
                 ELSE [h0 EXCEPT !.checksum = sum, !.valid = (sum = flds["checksum"])]
        ELSE h0

\* TBFHeader_v2 taking an application header for valid only when its
\* checksum matches
TBFHeader_v2_strict(full) ==
    LET flds == [header_size |-> U16(full, 2), total_size |-> U32(full, 4),
                 flags |-> U32(full, 8), checksum |-> U32(full, 12)]
        buffer == Drop(full, 16)
        h0 == [NewHeader EXCEPT !.version = 2, !.fields = flds]
    IN  IF Len(full) >= flds["header_size"] /\ flds["header_size"] >= 16
        THEN LET nbuf == PackInto32(Slice(full, 0, flds["header_size"]), 12, 0)
                 sum == _checksum(nbuf)
                 remaining == flds["header_size"] - 16
             IN  IF remaining > 0 /\ Len(buffer) >= remaining
                 THEN LET parsed == ParseTLVs(buffer, remaining, <<>>) IN
                      IF parsed.err # "none"
                      THEN [h0 EXCEPT !.err = parsed.err, !.app = TRUE, !.checksum = sum]
                      ELSE [h0 EXCEPT !.app = TRUE, !.tlvs = parsed.val, !.checksum = sum,
                                      !.valid = (sum = flds["checksum"])]
                 ELSE [h0 EXCEPT !.checksum = sum, !.valid = (sum = flds["checksum"])]
        ELSE h0

\* the version-2 branch of TBFHeader.__init__
TBFHeader_v2(full) ==
    LET flds == [header_size |-> U16(full, 2), total_size |-> U32(full, 4),
                 flags |-> U32(full, 8), checksum |-> U32(full, 12)]
        buffer == Drop(full, 16)
        h0 == [NewHeader EXCEPT !.version = 2, !.fields = flds]
    IN  IF Len(full) >= flds["header_size"] /\ flds["header_size"] >= 16
        THEN LET nbuf == PackInto32(Slice(full, 0, flds["header_size"]), 12, 0)
                 sum == _checksum(nbuf)
                 remaining == flds["header_size"] - 16
             IN  IF remaining > 0 /\ Len(buffer) >= remaining
                 THEN LET parsed == ParseTLVs(buffer, remaining, <<>>) IN
                      IF parsed.err # "none"
                      THEN [h0 EXCEPT !.err = parsed.err, !.app = TRUE, !.checksum = sum]
                      ELSE [h0 EXCEPT !.app = TRUE, !.tlvs = parsed.val, !.checksum = sum,
                                      !.valid = IF sum = flds["checksum"] THEN TRUE ELSE TRUE]
                 ELSE [h0 EXCEPT !.checksum = sum, !.valid = (sum = flds["checksum"])]
        ELSE h0

\* TBFHeader(buffer): the object __init__ leaves, and in err the exception it raised
TBFHeader(buffer) ==
    IF Len(buffer) < 2 THEN NewHeader
    ELSE LET v == U16(buffer, 0) IN
         IF v = 1 /\ Len(buffer) - 2 >= 74 THEN TBFHeader_v1(buffer)
         ELSE IF v = 2 /\ Len(buffer) - 2 >= 14 THEN TBFHeader_v2(buffer)
         ELSE [NewHeader EXCEPT !.version = v]

\* TBFHeader.is_valid(), is_app(), is_modified()
is_valid(self) == self.valid
is_app(self) == self.app
is_modified(self) == self.modified

\* TBFHeader.is_enabled()
is_enabled(self) ==
    IF ~self.valid THEN FALSE
    ELSE IF self.version = 1 THEN TRUE
    ELSE BitAnd(self.fields["flags"], 1) = 1

RECURSIVE PackAll(_)
\* buf += tlv.pack() for every tlv of the list
PackAll(ts) == IF ts = <<>> THEN Ok(<<>>) ELSE Cat(pack(ts[1]), PackAll(Tail(ts)))

V1PackFields == SubSeq(V1Fields, 1, 17)

\* the version-1 branch of get_binary: a format of 19 words for 18 values
get_binary_v1(self) ==
    IF \E i \in 1..17 : V1PackFields[i] \notin DOMAIN self.fields THEN Raise("KeyError")
    ELSE LET buf == StructPack([i \in 1..19 |-> "I"],
                               <<self.version>> \o [i \in 1..17 |-> self.fields[V1PackFields[i]]])
         IN  Cat(buf, IF buf.err # "none" THEN buf ELSE Ok(LE32(_checksum(buf.val))))

\* get_binary_v2 leaving the checksum field as packed, zero
get_binary_v2_nosum(self) ==
    IF ~({"header_size", "total_size", "flags"} \subseteq DOMAIN self.fields)
    THEN Raise("KeyError")
    ELSE LET head == StructPack(<<"H", "H", "I", "I", "I">>,
                                <<self.version, self.fields["header_size"],
                                  self.fields["total_size"], self.fields["flags"], 0>>)
             buf == Cat(head, IF self.app THEN PackAll(self.tlvs) ELSE Ok(<<>>))
             tlv_binary == _get_binary_tlv(self.tlvs)
         IN  IF buf.err # "none" THEN buf
             ELSE IF tlv_binary = 0 THEN buf
             ELSE IF "protected_size" \notin DOMAIN self.tlvs[tlv_binary].a
             THEN Raise("AttributeError")
             ELSE Ok(buf.val \o Zeros(self.tlvs[tlv_binary].a["protected_size"]))

\* the version-2 branch of get_binary
get_binary_v2(self) ==
    IF ~({"header_size", "total_size", "flags"} \subseteq DOMAIN self.fields)
    THEN Raise("KeyError")
    ELSE LET head == StructPack(<<"H", "H", "I", "I", "I">>,
                                <<self.version, self.fields["header_size"],
                                  self.fields["total_size"], self.fields["flags"], 0>>)
             buf == Cat(head, IF self.app THEN PackAll(self.tlvs) ELSE Ok(<<>>))
             tlv_binary == _get_binary_tlv(self.tlvs)
         IN  IF buf.err # "none" THEN buf
             ELSE LET out == PackInto32(buf.val, 12, _checksum(buf.val)) IN
                  IF tlv_binary = 0 THEN Ok(out)
                  ELSE IF "protected_size" \notin DOMAIN self.tlvs[tlv_binary].a
                  THEN Raise("AttributeError")
                  ELSE IF self.tlvs[tlv_binary].a["protected_size"] > 0
                  THEN Ok(out \o Zeros(self.tlvs[tlv_binary].a["protected_size"]))
                  ELSE Ok(out)

\* TBFHeader.get_binary()
get_binary(self) ==
    IF self.version = Unset THEN Raise("AttributeError")
    ELSE IF self.version = 1 THEN get_binary_v1(self)
    ELSE IF self.version = 2 THEN get_binary_v2(self)
    ELSE Raise("UnboundLocalError")

\* TBFHeaderPadding(size)
TBFHeaderPadding(size) ==
    LET h == [NewHeader EXCEPT !.valid = TRUE, !.version = 2,
                               !.fields = [header_size |-> 16, total_size |-> size,
                                           flags |-> 0]]
        bin == get_binary(h)
    IN  IF bin.err # "none" THEN [h EXCEPT !.err = bin.err]
        ELSE [h EXCEPT !.fields = [header_size |-> 16, total_size |-> size, flags |-> 0,
                                   checksum |-> _checksum(bin.val)]]

----------------------------------------------------------------------------
(* The mutators of TBFHeader, each from the object `self` to the object it  *)
(* leaves; err names the exception when the call raises, and the object is *)
(* then as the call left it at the raise.                                  *)

\* self.fields[name] = value
SetField(flds, name, value) ==
    [n \in DOMAIN flds \cup {name} |-> IF n = name THEN value ELSE flds[n]]

\* setattr(tlv, name, value)
SetAttr(tlv, name, value) ==
    [tlv EXCEPT !.a = [n \in DOMAIN tlv.a \cup {name} |-> IF n = name THEN value ELSE tlv.a[n]]]

\* the names getattr finds on the class of a TLV rather than on the instance
ClassAttrs(cls) ==
    IF cls = "Unknown" THEN {"get_tlvid", "get_size", "pack"}
    ELSE {"TLVID", "get_tlvid", "get_size", "pack"}

\* whether getattr(tlv, field) returns
HasAttr(tlv, field) == field \in DOMAIN tlv.a \/ field \in ClassAttrs(tlv.cls)

\* TBFHeader.set_flag(flag_name, flag_value)
set_flag(self, flag_name, flag_value) ==
    IF self.version = Unset THEN [self EXCEPT !.err = "AttributeError"]
    ELSE IF self.version = 1 \/ ~self.valid THEN self
    ELSE IF flag_name \in {"enable", "sticky"}
    THEN IF "flags" \notin DOMAIN self.fields THEN [self EXCEPT !.err = "KeyError"]
         ELSE LET bit == IF flag_name = "enable" THEN 1 ELSE 2 IN
              [self EXCEPT !.fields = SetField(self.fields, "flags",
                                        IF flag_value THEN BitOr(self.fields["flags"], bit)
                                        ELSE BitAndNot(self.fields["flags"], bit)),
                           !.modified = TRUE]
    ELSE self

\* TBFHeader.set_app_size(size)
set_app_size(self, size) ==
    [self EXCEPT !.fields = SetField(self.fields, "total_size", size), !.modified = TRUE]

\* TBFHeader.get_app_size()
get_app_size(self) ==
    IF "total_size" \notin DOMAIN self.fields THEN Raise("KeyError")
    ELSE Ok(self.fields["total_size"])

\* TBFHeader.has_footer(): there is a Program TLV and its binary_end_offset
\* is below total_size
has_footer(self) ==
    LET tlv == _get_tlv(self.tlvs, HEADER_TYPE_PROGRAM) IN
    IF tlv = 0 THEN Ok(FALSE)
    ELSE IF ~HasAttr(self.tlvs[tlv], "binary_end_offset") THEN Raise("AttributeError")
    ELSE IF "total_size" \notin DOMAIN self.fields THEN Raise("KeyError")
    ELSE Ok(self.tlvs[tlv].a["binary_end_offset"] < self.fields["total_size"])

\* TBFHeader.get_binary_end_offset(): binary_end_offset of the Program TLV,
\* total_size without one
get_binary_end_offset(self) ==
    LET tlv == _get_tlv(self.tlvs, HEADER_TYPE_PROGRAM) IN
    IF tlv # 0
    THEN IF ~HasAttr(self.tlvs[tlv], "binary_end_offset") THEN Raise("AttributeError")
         ELSE Ok(self.tlvs[tlv].a["binary_end_offset"])
    ELSE IF "total_size" \notin DOMAIN self.fields THEN Raise("KeyError")
    ELSE Ok(self.fields["total_size"])

\* TBFHeader.get_footer_size(): total_size - get_binary_end_offset()
get_footer_size(self) ==
    LET footer_start == get_binary_end_offset(self) IN
    IF footer_start.err # "none" THEN footer_start
    ELSE IF "total_size" \notin DOMAIN self.fields THEN Raise("KeyError")
    ELSE Ok(self.fields["total_size"] - footer_start.val)

\* TBFHeader.get_size_before_app(): 74 for version 1, else header_size plus
\* the protected_size of the Program TLV, of the Main TLV without one
get_size_before_app(self) ==
    IF self.version = 1 THEN Ok(74)
    ELSE IF "header_size" \notin DOMAIN self.fields THEN Raise("KeyError")
    ELSE LET binary_tlv == _get_binary_tlv(self.tlvs) IN
         IF binary_tlv = 0 THEN Raise("AttributeError")
         ELSE IF ~HasAttr(self.tlvs[binary_tlv], "protected_size") THEN Raise("AttributeError")
         ELSE Ok(self.fields["header_size"] + self.tlvs[binary_tlv].a["protected_size"])

RECURSIVE SumSizes(_, _)
\* the first loop of delete_tlv: size += tlv.get_size() over the matching TLVs
SumSizes(ts, tlvid) ==
    IF ts = <<>> THEN Ok(0)
    ELSE IF get_tlvid(ts[1]) # tlvid THEN SumSizes(Tail(ts), tlvid)
    ELSE LET sz == get_size(ts[1])
             rest == SumSizes(Tail(ts), tlvid)
         IN  IF sz.err # "none" THEN sz
             ELSE IF rest.err # "none" THEN rest
             ELSE Ok(sz.val + rest.val)

\* the list after the pops of delete_tlv
Without(ts, tlvid) == SelectSeq(ts, LAMBDA t : get_tlvid(t) # tlvid)

\* tlv.protected_size += size and tlv.init_fn_offset += size on the TLV at
\* position i, when there is one (i # 0)
Grow(ts, i, size) ==
    IF i = 0 THEN ts
    ELSE [ts EXCEPT ![i] = SetAttr(SetAttr(ts[i], "protected_size",
                                           ts[i].a["protected_size"] + size),
                                   "init_fn_offset", ts[i].a["init_fn_offset"] + size)]

\* delete_tlv leaving header_size as it was
delete_tlv_keepsize(self, tlvid) ==
    LET size == SumSizes(self.tlvs, tlvid)
        kept == Without(self.tlvs, tlvid)
        popped == [self EXCEPT !.tlvs = kept,
                               !.modified = (self.modified \/ Len(kept) # Len(self.tlvs))]
        tlv_main == _get_tlv(kept, HEADER_TYPE_MAIN)
        tlv_program == _get_tlv(kept, HEADER_TYPE_PROGRAM)
    IN  IF size.err # "none" THEN [self EXCEPT !.err = size.err]
        ELSE IF \E i \in {tlv_main, tlv_program} \ {0} :
                    ~({"protected_size", "init_fn_offset"} \subseteq DOMAIN kept[i].a)
        THEN [popped EXCEPT !.err = "AttributeError"]
        ELSE [popped EXCEPT !.tlvs = Grow(Grow(kept, tlv_main, size.val),
                                          tlv_program, size.val)]

\* TBFHeader.delete_tlv(tlvid)
delete_tlv(self, tlvid) ==
    LET size == SumSizes(self.tlvs, tlvid)
        kept == Without(self.tlvs, tlvid)
        popped == [self EXCEPT !.tlvs = kept,
                               !.modified = (self.modified \/ Len(kept) # Len(self.tlvs))]
        tlv_main == _get_tlv(kept, HEADER_TYPE_MAIN)
        tlv_program == _get_tlv(kept, HEADER_TYPE_PROGRAM)
    IN  IF size.err # "none" THEN [self EXCEPT !.err = size.err]
        ELSE IF "header_size" \notin DOMAIN self.fields THEN [popped EXCEPT !.err = "KeyError"]
        ELSE LET shrunk == [popped EXCEPT !.fields = SetField(self.fields, "header_size",
                                              self.fields["header_size"] - size.val)]
             IN  IF \E i \in {tlv_main, tlv_program} \ {0} :
                        ~({"protected_size", "init_fn_offset"} \subseteq DOMAIN kept[i].a)
                 THEN [shrunk EXCEPT !.err = "AttributeError"]
                 ELSE [shrunk EXCEPT !.tlvs = Grow(Grow(kept, tlv_main, size.val),
                                                   tlv_program, size.val)]

RECURSIVE ModifyFrom(_, _, _, _, _)
\* the loop of modify_tlv from position i of self.tlvs on
ModifyFrom(self, i, tlvid, field, value) ==
    IF i > Len(self.tlvs) THEN self
    ELSE IF get_tlvid(self.tlvs[i]) # tlvid THEN ModifyFrom(self, i + 1, tlvid, field, value)
    ELSE IF ~HasAttr(self.tlvs[i], field) THEN [self EXCEPT !.err = "TockLoaderException"]
    ELSE ModifyFrom([self EXCEPT !.tlvs[i] = SetAttr(self.tlvs[i], field, value),
                                 !.modified = TRUE],
                    i + 1, tlvid, field, value)

\* TBFHeader.modify_tlv(tlvid, field, value)
modify_tlv(self, tlvid, field, value) ==
    IF tlvid = 0 THEN [self EXCEPT !.fields = SetField(self.fields, field, value)]
    ELSE ModifyFrom(self, 1, tlvid, field, value)

\* adjust_starting_address taking the binary to start right after the
\* protected region, the header not counted
adjust_starting_address_noheader(self, address) ==
    LET tlv_fixed_addr == _get_tlv(self.tlvs, HEADER_TYPE_FIXED_ADDRESSES)
        tlv_program == _get_binary_tlv(self.tlvs)
    IN  IF tlv_fixed_addr = 0 THEN self
        ELSE IF tlv_program = 0 THEN [self EXCEPT !.err = "AttributeError"]
        ELSE IF ~({"protected_size", "init_fn_offset"} \subseteq DOMAIN self.tlvs[tlv_program].a)
                \/ "fixed_address_flash" \notin DOMAIN self.tlvs[tlv_fixed_addr].a
        THEN [self EXCEPT !.err = "AttributeError"]
        ELSE LET start == address + self.tlvs[tlv_program].a["protected_size"]
                 flash == self.tlvs[tlv_fixed_addr].a["fixed_address_flash"]
                 delta == flash - start
             IN  IF start # flash
                 THEN IF start < flash
                      THEN [self EXCEPT !.tlvs = Grow(self.tlvs, tlv_program, delta)]
                      ELSE [self EXCEPT !.err = "TockLoaderException"]
                 ELSE self

\* TBFHeader.adjust_starting_address(address)
adjust_starting_address(self, address) ==
    LET tlv_fixed_addr == _get_tlv(self.tlvs, HEADER_TYPE_FIXED_ADDRESSES)
        tlv_program == _get_binary_tlv(self.tlvs)
    IN  IF tlv_fixed_addr = 0 THEN self
        ELSE IF "header_size" \notin DOMAIN self.fields THEN [self EXCEPT !.err = "KeyError"]
        ELSE IF tlv_program = 0 THEN [self EXCEPT !.err = "AttributeError"]
        ELSE IF ~({"protected_size", "init_fn_offset"} \subseteq DOMAIN self.tlvs[tlv_program].a)
                \/ "fixed_address_flash" \notin DOMAIN self.tlvs[tlv_fixed_addr].a
        THEN [self EXCEPT !.err = "AttributeError"]
        ELSE LET start == address + self.fields["header_size"]
                            + self.tlvs[tlv_program].a["protected_size"]
                 flash == self.tlvs[tlv_fixed_addr].a["fixed_address_flash"]
                 delta == flash - start
             IN  IF start # flash
                 THEN IF start < flash
                      THEN [self EXCEPT !.tlvs = Grow(self.tlvs, tlv_program, delta)]
                      ELSE [self EXCEPT !.err = "TockLoaderException"]
                 ELSE self

----------------------------------------------------------------------------
(* The footer: credentials and their verification.  hashlib and the RSA    *)
(* library are outside the repository: a digest is modelled as a           *)
(* deterministic function of the blob giving digest_size bytes, a key as   *)
(* [n: the bytes of its modulus, id], and a signature     as the function  *)
(* of key and blob that the matching private key produces.                 *)

CREDENTIALS_TYPE_RESERVED == 0
CREDENTIALS_TYPE_RSA4096KEY == 3
CREDENTIALS_TYPE_SHA256 == 6
CREDENTIALS_TYPE_SHA384 == 7
CREDENTIALS_TYPE_SHA512 == 8

RECURSIVE Mix(_, _)
Mix(blob, acc) ==
    IF blob = <<>> THEN acc
    ELSE LET next == (acc * 31 + blob[1] + 7) % 65521
         IN  IF next < 0 THEN next ELSE Mix(Tail(blob), next)

Digest(salt, size, blob) ==
    LET m == Mix(blob, salt) IN [i \in 1..size |-> (m + i * salt) % 256]

\* hashlib.sha256(blob).digest(), hashlib.sha384(...), hashlib.sha512(...)
sha256(blob) == Digest(3, 32, blob)
sha384(blob) == Digest(5, 48, blob)
sha512(blob) == Digest(11, 64, blob)

\* the signature pkcs1_15.new(key).verify(SHA512(blob), signature) accepts
RsaSignature(key, blob) == Digest(13 + key.id, 512, blob)

RECURSIVE StripZeros(_)
\* the magnitude of int.from_bytes(b, "big"): b without its leading zero bytes
StripZeros(b) == IF b # <<>> /\ b[1] = 0 THEN StripZeros(Tail(b)) ELSE b

RECURSIVE VerifyRsa(_, _, _)
\* the loop over keys of verify: only the first key with the modulus is tried
VerifyRsa(tlv, keys, integrity_blob) ==
    IF keys = <<>> THEN tlv
    ELSE IF StripZeros(Slice(tlv.a["buffer"], 0, 512)) # keys[1].n
    THEN VerifyRsa(tlv, Tail(keys), integrity_blob)
    ELSE SetAttr(tlv, "verified",
                 IF Slice(tlv.a["buffer"], 512, 1024) = RsaSignature(keys[1], integrity_blob)
                 THEN "yes" ELSE "no")

\* verify checking only the credentials whose length the constructor accepted
verify_valid_only(tlv, keys, integrity_blob) ==
    IF integrity_blob = None \/ ~tlv.a["valid"] THEN Ok(tlv)
    ELSE IF "credentials_type" \notin DOMAIN tlv.a THEN Raise("AttributeError")
    ELSE LET t == tlv.a["credentials_type"]
             yesno(hash) == IF tlv.a["buffer"] = hash THEN "yes" ELSE "no"
         IN  CASE t = CREDENTIALS_TYPE_SHA256 ->
                    Ok(SetAttr(tlv, "verified", yesno(sha256(integrity_blob))))
               [] t = CREDENTIALS_TYPE_SHA384 ->
                    Ok(SetAttr(tlv, "verified", yesno(sha384(integrity_blob))))
               [] t = CREDENTIALS_TYPE_SHA512 ->
                    Ok(SetAttr(tlv, "verified", yesno(sha512(integrity_blob))))
               [] OTHER -> Ok(tlv)

\* TBFFooterTLVCredentials.verify(keys, integrity_blob): Ok(the TLV after
\* the call) or the exception
verify(tlv, keys, integrity_blob) ==
    IF integrity_blob = None THEN Ok(tlv)
    ELSE IF "credentials_type" \notin DOMAIN tlv.a THEN Raise("AttributeError")
    ELSE LET t == tlv.a["credentials_type"]
             yesno(hash) == IF tlv.a["buffer"] = hash THEN "yes" ELSE "no"
         IN  CASE t = CREDENTIALS_TYPE_SHA256 ->
                    Ok(SetAttr(tlv, "verified", yesno(sha256(integrity_blob))))
               [] t = CREDENTIALS_TYPE_SHA384 ->
                    Ok(SetAttr(tlv, "verified", yesno(sha384(integrity_blob))))
               [] t = CREDENTIALS_TYPE_SHA512 ->
                    Ok(SetAttr(tlv, "verified", yesno(sha512(integrity_blob))))
               [] t = CREDENTIALS_TYPE_RSA4096KEY -> Ok(VerifyRsa(tlv, keys, integrity_blob))
               [] OTHER -> Ok(tlv)

\* TBFFooterTLVCredentials(buffer, integrity_blob)
TBFFooterTLVCredentials(buffer, integrity_blob) ==
    LET new == [cls |-> "Credentials", a |-> [valid |-> FALSE, verified |-> "unknown"]]
        typed(t, ok) == SetAttr(SetAttr(SetAttr(new, "credentials_type", t),
                                        "buffer", Drop(buffer, 4)), "valid", ok)
        body == Len(buffer) - 4
    IN  IF Len(buffer) >= 4
        THEN LET credentials_type == U32(buffer, 0) IN
             CASE credentials_type = CREDENTIALS_TYPE_RESERVED ->
                    Ok(typed(CREDENTIALS_TYPE_RESERVED, TRUE))
               [] credentials_type = CREDENTIALS_TYPE_SHA256 ->
                    verify(typed(CREDENTIALS_TYPE_SHA256, body = 64), <<>>, integrity_blob)
               [] credentials_type = CREDENTIALS_TYPE_SHA384 ->
                    verify(typed(CREDENTIALS_TYPE_SHA384, body = 96), <<>>, integrity_blob)
               [] credentials_type = CREDENTIALS_TYPE_SHA512 ->
                    verify(typed(CREDENTIALS_TYPE_SHA512, body = 128), <<>>, integrity_blob)
               [] credentials_type = CREDENTIALS_TYPE_RSA4096KEY ->
                    Ok(typed(CREDENTIALS_TYPE_RSA4096KEY, body = 1024))
               [] OTHER -> Ok(new)
        ELSE Ok(new)

RECURSIVE FooterLoop(_, _, _)
\* the loop `while position < len(buffer)` of TBFFooter.__init__ from the
\* state (buffer, self.tlvs): position stays 0
FooterLoop(buffer, integrity_blob, self_tlvs) ==
    IF ~(0 < Len(buffer)) THEN Ok(self_tlvs)
    ELSE IF Len(Slice(buffer, 0, 4)) < 4 THEN Raise("struct.error")
    ELSE LET tlv_type == U16(buffer, 0)
             tlv_length == U16(buffer, 2)
             rest == Drop(buffer, 4)
             remaining == Len(rest)
             new == IF tlv_type = FOOTER_TYPE_CREDENTIALS /\ remaining >= tlv_length
                    THEN TBFFooterTLVCredentials(Slice(rest, 0, tlv_length), integrity_blob)
                    ELSE Raise("skip")
         IN  IF new.err = "skip" THEN FooterLoop(Drop(rest, tlv_length), integrity_blob, self_tlvs)
             ELSE IF new.err # "none" THEN new
             ELSE FooterLoop(Drop(rest, tlv_length), integrity_blob, Append(self_tlvs, new.val))

\* TBFFooter(tbfh, app_binary, buffer): Ok(self.tlvs) or the exception
TBFFooter(tbfh, app_bin, buffer) ==
    IF tbfh.version = Unset THEN Raise("AttributeError")
    ELSE LET bin == IF app_bin # None THEN get_binary(tbfh) ELSE Ok(<<>>)
             integrity_blob == IF app_bin # None THEN bin.val \o app_bin ELSE None
         IN  IF bin.err # "none" THEN bin
             ELSE FooterLoop(buffer, integrity_blob, <<>>)

RECURSIVE VerifyFrom(_, _, _, _)
\* the loop `for tlv in self.tlvs: tlv.verify(keys, integrity_blob)` from
\* position i on: the list as the loop leaves it, with the exception if one
\* is raised
VerifyFrom(self_tlvs, i, keys, integrity_blob) ==
    IF i > Len(self_tlvs) THEN Ok(self_tlvs)
    ELSE LET v == verify(self_tlvs[i], keys, integrity_blob) IN
         IF v.err # "none" THEN [err |-> v.err, val |-> self_tlvs]
         ELSE VerifyFrom([self_tlvs EXCEPT ![i] = v.val], i + 1, keys, integrity_blob)

\* TBFFooter.verify_credentials(public_keys, integrity_blob), keys being the
\* key objects importKey makes of public_keys
verify_credentials(self_tlvs, keys, integrity_blob) ==
    VerifyFrom(self_tlvs, 1, keys, integrity_blob)

\* TBFFooter.get_binary() of a footer of the given version and TLV list
TBFFooter_get_binary(self_version, self_tlvs) ==
    IF self_version = 2 THEN PackAll(self_tlvs) ELSE Ok(<<>>)

----------------------------------------------------------------------------
(* Input buffers.  A wire record is the bytes of one TLV as a producer     *)
(* writes it: type, unpadded length, payload, padding to 4 bytes.          *)

MaxTlvs == 2
MaxOps == 2

RECURSIVE Flatten(_)
Flatten(ss) == IF ss = <<>> THEN <<>> ELSE ss[1] \o Flatten(Tail(ss))

\* the little-endian bytes of a sequence of 32-bit words
Words(ws) == Flatten([i \in 1..Len(ws) |-> LE32(ws[i])])

Wire(tipe, payload, padbyte) ==
    LE16(tipe) \o LE16(Len(payload)) \o payload
        \o [i \in 1..(roundup(Len(payload), 4) - Len(payload)) |-> padbyte]

WMain == Wire(1, Words(<<32, 0, 1024>>), 0)
WMainProtected == Wire(1, Words(<<36, 4, 1024>>), 0)
WProgram == Wire(9, Words(<<40, 0, 1024, 200, 3>>), 0)
WProgramProtected == Wire(9, Words(<<48, 8, 1024, 200, 3>>), 0)
WFixed == Wire(5, Words(<<128, 64>>), 0)
WKernel == Wire(8, LE16(2) \o LE16(1), 0)
WName == Wire(3, <<97, 98>>, 0)
WNameAccent == Wire(3, <<195, 169, 33>>, 0)
WRegions == Wire(2, Words(<<16, 8>>), 0)
WUnknown == Wire(7, <<1, 2, 3>>, 0)
WPic == Wire(4, Words(<<1, 2, 3, 4, 5, 6, 7, 8, 9, 10>>), 0)
\* a record padded with non-zero bytes
WUnknownPad == Wire(7, <<1, 2, 3>>, 9)
\* records a parser has to cope with: a length that fits no layout, bytes
\* that are not UTF-8, a length that runs past the end of the header
WRegions4 == Wire(2, Words(<<16>>), 0)
WMain8 == Wire(1, Words(<<32, 0>>), 0)
WNameBad == Wire(3, <<255, 98>>, 0)
WOverrun == LE16(7) \o LE16(8) \o <<1, 2, 3, 4>>

GoodWire == {WMain, WMainProtected, WProgram, WProgramProtected, WFixed, WKernel,
             WName, WNameAccent, WRegions, WUnknown, WPic}
AnyWire == GoodWire \cup {WUnknownPad, WRegions4, WMain8, WNameBad, WOverrun}

\* the byte streams of at most n records drawn from S
Streams(S, n) == UNION {{Flatten(f) : f \in [1..k -> S]} : k \in 0..n}

RECURSIVE LaneXor(_, _, _)
\* the exclusive-or of the bytes of b at the positions i, i + 4, i + 8, ...
LaneXor(b, i, acc) == IF i > Len(b) THEN acc ELSE LaneXor(b, i + 4, BitXor(acc, b[i]))

\* the checksum bytes a producer stores: per byte lane, the exclusive-or of
\* the lane over the header with the checksum field taken as zero
StoredChecksum(b) ==
    LET z == [i \in 1..Len(b) |-> IF i \in 13..16 THEN 0 ELSE b[i]] IN
    [k \in 1..4 |-> LaneXor(z, k, 0)]

\* a version-2 header as a producer writes it
HeaderBytes(total_size, flags, stream) ==
    LET raw == LE16(2) \o LE16(16 + Len(stream)) \o LE32(total_size) \o LE32(flags)
                \o Zeros(4) \o stream
        c == StoredChecksum(raw)
    IN  [i \in 1..Len(raw) |-> IF i \in 13..16 THEN c[i - 12] ELSE raw[i]]

\* b with its stored checksum changed
BadChecksum(b) == [b EXCEPT ![13] = (b[13] + 1) % 256]
\* b cut short of its header_size
Truncated(b) == SubSeq(b, 1, Len(b) - 1)
\* b followed by the first bytes of an application binary
Trailing(b) == b \o <<170, 187, 204, 93>>

\* a version-1 header: the version word, 17 fields, the checksum of those 72 bytes
V1Bytes(total_size) ==
    LET raw == LE32(1) \o LE32(total_size) \o Flatten([i \in 1..16 |-> LE32(i)]) IN
    raw \o [k \in 1..4 |-> LaneXor(raw, k, 0)]

\* a header of k bytes more than the base fields that hold no whole record
OddSized(k) ==
    LET raw == LE16(2) \o LE16(16 + k) \o LE32(512) \o LE32(1) \o Zeros(4)
                \o SubSeq(<<7, 8, 9>>, 1, k)
        c == StoredChecksum(raw)
    IN  [i \in 1..Len(raw) |-> IF i \in 13..16 THEN c[i - 12] ELSE raw[i]]

ShortBuffers == {<<>>, <<2>>, <<2, 0, 16, 0>>, <<3, 0>> \o Zeros(14),
                 SubSeq(V1Bytes(512), 1, 75)}

ParseBuffers ==
    LET exact == {HeaderBytes(512, f, s) : f \in {0, 1}, s \in Streams(AnyWire, MaxTlvs)}
        some == {HeaderBytes(512, 1, s) : s \in Streams(AnyWire, 1)}
    IN  exact \cup {BadChecksum(b) : b \in some} \cup {Truncated(b) : b \in some}
              \cup {Trailing(b) : b \in some}
              \cup {V1Bytes(512), BadChecksum(V1Bytes(512))}
              \cup {OddSized(k) : k \in 1..3} \cup {BadChecksum(OddSized(2))}
              \cup ShortBuffers

PaddingSizes == {0, 512, 1048578}

\* the headers the mutators are called on
MutWire == {WMain, WProgramProtected, WFixed, WName}
MutBuffers ==
    {HeaderBytes(512, 1, s) : s \in Streams(MutWire, MaxTlvs)}
        \cup {HeaderBytes(512, 1, WRegions4),
              HeaderBytes(512, 1, WMain \o WRegions4),
              HeaderBytes(512, 1, WProgram \o WRegions \o WUnknown),
              HeaderBytes(512, 1, WMain \o WProgramProtected \o WName),
              HeaderBytes(512, 1, WProgram \o WFixed \o WName),
              HeaderBytes(512, 1, WRegions \o WRegions4),
              BadChecksum(HeaderBytes(512, 1, <<>>)),
              Truncated(HeaderBytes(512, 1, WMain)),
              V1Bytes(512), <<2>>, <<>>}

FlagNames == {"enable", "other"}
AppSizes == {128}
DeleteIds == {1, 2, 3, 7, 9}
ModifyCalls ==
    {<<0, "header_size", 20>>, <<0, "total_size", 2048>>,
     <<1, "protected_size", 8>>,
     <<1, "binary_end_offset", 64>>, <<9, "binary_end_offset", 64>>,
     <<3, "package_name", <<99, 100, 101, 102, 103>>>>,
     <<7, "buffer", <<5>>>>, <<2, "writeable_flash_regions", <<>>>>}
Addresses == {0, 4, 64}

\* a Credentials record of the footer as a producer writes it
CredWire(credentials_type, body) ==
    LE16(128) \o LE16(4 + Len(body)) \o LE32(credentials_type) \o body

\* b with its last byte changed
Tampered(b) == [b EXCEPT ![Len(b)] = (b[Len(b)] + 1) % 256]

AppBinaries == {<<>>, <<222, 173, 190, 239>>}

\* the 512 bytes of an RSA modulus, most significant first
Modulus == [i \in 1..512 |-> IF i = 1 THEN 193 ELSE 1]

\* the footers handed to TBFFooter for the header tbfh: the credentials a
\* producer computes over the header's binary and one of the application
\* binaries, and variations of them
FooterBuffers(tbfh) ==
    LET hb == get_binary(tbfh).val
        for(ab) ==
            {CredWire(6, sha256(hb \o ab)),
             CredWire(6, Tampered(sha256(hb \o ab))),
             CredWire(7, sha384(hb \o ab)),
             CredWire(8, sha512(hb \o ab)) \o CredWire(6, sha256(hb \o ab)),
             CredWire(8, Tampered(sha512(hb \o ab))),
             LE16(129) \o LE16(3) \o <<1, 2, 3>> \o CredWire(7, sha384(hb \o ab)),
             CredWire(6, sha256(hb \o ab)) \o <<128, 0>>}
    IN  UNION {for(ab) : ab \in AppBinaries}
            \cup {<<>>, CredWire(0, <<1, 2>>), CredWire(6, Zeros(64)),
                  CredWire(1, <<1>>), LE16(128) \o LE16(2) \o <<6, 0>>,
                  LE16(128) \o LE16(40) \o <<6, 0, 0, 0, 1>>,
                  CredWire(3, Modulus \o Zeros(512)), CredWire(3, Modulus),
                  CredWire(7, Zeros(96)), CredWire(8, Zeros(128))}

\* the key lists handed to verify_credentials: none, and a key with the
\* modulus of the RSA4096KEY credentials
PublicKeys == {<<>>, <<[id |-> 1, n |-> Modulus]>>}

\* the blobs handed to verify_credentials for the header tbfh: none, and the
\* header's binary followed by an application binary
IntegrityBlobs(tbfh) ==
    LET hb == get_binary(tbfh) IN
    {None} \cup {(IF hb.err = "none" THEN hb.val ELSE <<>>) \o ab : ab \in AppBinaries}

\* the headers footers are constructed for
FooterHeaders ==
    {HeaderBytes(512, 1, WProgram), HeaderBytes(512, 1, WMainProtected \o WName),
     HeaderBytes(512, 1, WProgram \o WRegions4), HeaderBytes(512, 0, <<>>),
     V1Bytes(512)}

----------------------------------------------------------------------------
(* The caller: it constructs a header, calls mutators on it, asks for its  *)
(* binary, or constructs a footer for it.                                  *)

\* the header object the variables hold
Self ==
    [err |-> "none", version |-> version, valid |-> valid, app |-> app,
     modified |-> modified, fields |-> fields, tlvs |-> tlvs, checksum |-> checksum]

NoLast == [op |-> "none", args |-> <<>>, before |-> NewHeader]

\* the variables take the object h
Becomes(h) ==
    /\ version' = h.version
    /\ valid' = h.valid
    /\ app' = h.app
    /\ modified' = h.modified
    /\ fields' = h.fields
    /\ tlvs' = h.tlvs
    /\ checksum' = h.checksum
    /\ err' = h.err

InitWith(buffers) ==
    /\ pc = "new"
    /\ full_buffer \in buffers
    /\ version = Unset
    /\ valid = FALSE
    /\ app = FALSE
    /\ modified = FALSE
    /\ fields = NoFields
    /\ tlvs = <<>>
    /\ checksum = Unset
    /\ err = "none"
    /\ last = NoLast
    /\ nops = 0
    /\ binary = NoCall
    /\ app_binary = None
    /\ footer_buffer = None
    /\ footer_tlvs = <<>>

\* header = TBFHeader(full_buffer)
TBFHeader_init ==
    /\ pc = "new"
    /\ full_buffer # None
    /\ LET h == TBFHeader(full_buffer) IN
        /\ Becomes(h)
        /\ pc' = IF h.err = "none" THEN "header" ELSE "raised"
    /\ last' = [op |-> "TBFHeader", args |-> <<>>, before |-> NewHeader]
    /\ UNCHANGED <<full_buffer, nops, binary, app_binary, footer_buffer, footer_tlvs>>

\* header = TBFHeaderPadding(size)
TBFHeaderPadding_init ==
    /\ pc = "new"
    /\ full_buffer = None
    /\ \E size \in PaddingSizes :
        LET h == TBFHeaderPadding(size) IN
        /\ Becomes(h)
        /\ pc' = IF h.err = "none" THEN "header" ELSE "raised"
        /\ last' = [op |-> "TBFHeaderPadding", args |-> <<size>>, before |-> NewHeader]
    /\ UNCHANGED <<full_buffer, nops, binary, app_binary, footer_buffer, footer_tlvs>>

\* a mutator call op(args) that leaves the object h
Mutates(op, args, h) ==
    /\ pc = "header"
    /\ nops < MaxOps
    /\ Becomes([h EXCEPT !.checksum = checksum])
    /\ last' = [op |-> op, args |-> args, before |-> Self]
    /\ nops' = nops + 1
    /\ UNCHANGED <<pc, full_buffer, binary, app_binary, footer_buffer, footer_tlvs>>

Call_set_flag ==
    \E flag_name \in FlagNames, flag_value \in BOOLEAN :
        Mutates("set_flag", <<flag_name, flag_value>>, set_flag(Self, flag_name, flag_value))

Call_set_app_size ==
    \E size \in AppSizes : Mutates("set_app_size", <<size>>, set_app_size(Self, size))

Call_delete_tlv ==
    \E tlvid \in DeleteIds : Mutates("delete_tlv", <<tlvid>>, delete_tlv(Self, tlvid))

Call_modify_tlv ==
    \E c \in ModifyCalls : Mutates("modify_tlv", c, modify_tlv(Self, c[1], c[2], c[3]))

Call_adjust_starting_address ==
    \E address \in Addresses :
        Mutates("adjust_starting_address", <<address>>, adjust_starting_address(Self, address))

\* binary = header.get_binary()
Call_get_binary ==
    /\ pc = "header"
    /\ LET b == get_binary(Self) IN
        /\ binary' = b
        /\ err' = b.err
    /\ pc' = "packed"
    /\ last' = [op |-> "get_binary", args |-> <<>>, before |-> Self]
    /\ UNCHANGED <<full_buffer, version, valid, app, modified, fields, tlvs, checksum,
                   nops, app_binary, footer_buffer, footer_tlvs>>

\* footer = TBFFooter(header, app_bin, buffer)
TBFFooter_init ==
    /\ pc = "header"
    /\ \E app_bin \in AppBinaries \cup {None} :
       \E buffer \in FooterBuffers(Self) :
        LET f == TBFFooter(Self, app_bin, buffer) IN
        /\ app_binary' = app_bin
        /\ footer_buffer' = buffer
        /\ footer_tlvs' = f.val
        /\ err' = f.err
    /\ pc' = "footer"
    /\ last' = [op |-> "TBFFooter", args |-> <<>>, before |-> Self]
    /\ UNCHANGED <<full_buffer, version, valid, app, modified, fields, tlvs, checksum,
                   nops, binary>>

\* a footer object exists: its construction returned
FooterExists == \/ pc = "footer" /\ err = "none"
                \/ pc = "verified"

\* footer.verify_credentials(public_keys, integrity_blob)
Call_verify_credentials ==
    /\ FooterExists
    /\ nops < MaxOps
    /\ \E keys \in PublicKeys, integrity_blob \in IntegrityBlobs(last.before) :
        LET v == verify_credentials(footer_tlvs, keys, integrity_blob) IN
        /\ footer_tlvs' = v.val
        /\ err' = v.err
        /\ last' = [op |-> "verify_credentials", args |-> <<keys, integrity_blob>>,
                    before |-> last.before, footer_before |-> footer_tlvs]
    /\ pc' = "verified"
    /\ nops' = nops + 1
    /\ UNCHANGED <<full_buffer, version, valid, app, modified, fields, tlvs, checksum,
                   binary, app_binary, footer_buffer>>

\* binary = footer.get_binary()
Call_footer_get_binary ==
    /\ FooterExists
    /\ LET b == TBFFooter_get_binary(version, footer_tlvs) IN
        /\ binary' = b
        /\ err' = b.err
    /\ pc' = "footer_packed"
    /\ last' = [op |-> "TBFFooter.get_binary", args |-> <<>>, before |-> last.before,
                footer_before |-> footer_tlvs]
    /\ UNCHANGED <<full_buffer, version, valid, app, modified, fields, tlvs, checksum,
                   nops, app_binary, footer_buffer, footer_tlvs>>

\* parsing and serializing
InitParse == InitWith(ParseBuffers \cup {None})
NextParse == TBFHeader_init \/ TBFHeaderPadding_init \/ Call_get_binary
SpecParse == InitParse /\ [][NextParse]_vars

\* footers of a parsed header
InitFooter == InitWith(FooterHeaders)
NextFooter == \/ TBFHeader_init \/ Call_get_binary \/ TBFFooter_init
              \/ Call_verify_credentials \/ Call_footer_get_binary
SpecFooter == InitFooter /\ [][NextFooter]_vars

\* mutating a parsed header
Init == InitWith(MutBuffers)
Next ==
    \/ TBFHeader_init
    \/ Call_set_flag
    \/ Call_set_app_size
    \/ Call_delete_tlv
    \/ Call_modify_tlv
    \/ Call_adjust_starting_address
    \/ Call_get_binary
Spec == Init /\ [][Next]_vars

\* mutating a parsed header through the calls that keep its layout, and
\* serializing it
NextRepack == \/ TBFHeader_init
              \/ Call_set_flag \/ Call_set_app_size \/ Call_delete_tlv
              \/ Call_adjust_starting_address
              \/ Call_get_binary
SpecRepack == Init /\ [][NextRepack]_vars

\* changing the sizes a parsed header states
NextResize == TBFHeader_init \/ Call_set_app_size \/ Call_modify_tlv
SpecResize == Init /\ [][NextResize]_vars

----------------------------------------------------------------------------
(* Properties.  The buffers they speak of are described from their bytes,  *)
(* without the parser.                                                     *)

\* the little-endian number at the 1-based positions i, i + 1 of b
Wire16(b, i) == b[i] + 256 * b[i + 1]

\* the length a record of a known type must have
CorrectlySized(tipe, length) ==
    CASE tipe = 1 -> length = 12
      [] tipe = 9 -> length = 20
      [] tipe = 2 -> length % 8 = 0
      [] tipe = 4 -> length = 40
      [] tipe = 5 -> length = 8
      [] tipe = 8 -> length = 4
      [] OTHER -> TRUE

RECURSIVE WellFormedRecords(_)
\* s is a sequence of whole, correctly sized records, each padded to 4 bytes
WellFormedRecords(s) ==
    IF s = <<>> THEN TRUE
    ELSE IF Len(s) < 4 THEN FALSE
    ELSE LET size == 4 + roundup(Wire16(s, 3), 4) IN
         /\ CorrectlySized(Wire16(s, 1), Wire16(s, 3))
         /\ size <= Len(s)
         /\ WellFormedRecords(Drop(s, size))

RECURSIVE ZeroPadded(_)
\* the padding bytes of the records of s are zero
ZeroPadded(s) ==
    IF Len(s) < 4 THEN TRUE
    ELSE LET length == Wire16(s, 3)
             size == 4 + roundup(length, 4)
         IN  /\ \A i \in (4 + length + 1)..Min(size, Len(s)) : s[i] = 0
             /\ ZeroPadded(Drop(s, size))

RECURSIVE FirstRecord(_, _)
\* the payload of the first record of type tipe in s, <<>> when there is none
FirstRecord(s, tipe) ==
    IF Len(s) < 4 THEN <<>>
    ELSE IF Wire16(s, 1) = tipe THEN Slice(s, 4, 4 + Wire16(s, 3))
    ELSE FirstRecord(Drop(s, 4 + roundup(Wire16(s, 3), 4)), tipe)

\* the protected size a buffer states: the second word of its first Program
\* record, of its first Main record when it has no Program record
WireProtectedSize(b) ==
    LET program == FirstRecord(Drop(b, 16), 9)
        main == FirstRecord(Drop(b, 16), 1)
        rec == IF program # <<>> THEN program ELSE main
    IN  IF rec = <<>> THEN 0 ELSE U32(rec, 4)

\* the checksum bytes of the first header_size bytes of b: per byte lane the
\* exclusive-or of the lane, the bytes 12..15 counted as zero
ChecksumBytes(b) ==
    LET hs == Wire16(b, 3)
        z == [i \in 1..hs |-> IF i \in 13..16 THEN 0 ELSE b[i]]
    IN  [k \in 1..4 |-> LaneXor(z, k, 0)]

\* b is a well-formed version-2 buffer: version 2, header_size its length
\* and a multiple of 4, whole correctly sized records, the stored checksum
\* correct
WellFormedV2(b) ==
    /\ Len(b) >= 16
    /\ Wire16(b, 1) = 2
    /\ Wire16(b, 3) = Len(b)
    /\ Len(b) % 4 = 0
    /\ WellFormedRecords(Drop(b, 16))
    /\ SubSeq(b, 13, 16) = ChecksumBytes(b)

\* header.get_binary() has been called on the header parsed from full_buffer
Serialized == pc = "packed" /\ full_buffer # None

\* C1 as stated: for a well-formed version-2 buffer b, whatever protected
\* size it states, TBFHeader(b).get_binary() is b.
C1_RoundTripExact ==
    (Serialized /\ WellFormedV2(full_buffer)) => binary = Ok(full_buffer)

\* C1, amended: for a well-formed version-2 buffer b whose padding bytes are
\* zero, TBFHeader(b).get_binary() is b followed by as many zero bytes as
\* the protected size b states.
C1_RoundTrip ==
    (Serialized /\ WellFormedV2(full_buffer) /\ ZeroPadded(Drop(full_buffer, 16)))
        => binary = Ok(full_buffer \o Zeros(WireProtectedSize(full_buffer)))

\* a header with a Program record of non-zero protected size and a package
\* name has been serialized
C1_Witness ==
    /\ Serialized
    /\ WellFormedV2(full_buffer)
    /\ ZeroPadded(Drop(full_buffer, 16))
    /\ WireProtectedSize(full_buffer) = 8
    /\ Len(tlvs) = 2
    /\ tlvs[2].cls = "PackageName"
    /\ binary.err = "none"
    /\ Len(binary.val) = Len(full_buffer) + 8

RECURSIVE TotalSize(_)
\* the sum of tlv.get_size() over the TLVs ts, or the exception get_size raises
TotalSize(ts) ==
    IF ts = <<>> THEN Ok(0)
    ELSE LET sz == get_size(ts[1])
             rest == TotalSize(Tail(ts))
         IN  IF sz.err # "none" THEN sz
             ELSE IF rest.err # "none" THEN rest
             ELSE Ok(sz.val + rest.val)

\* header_size is 16 plus the sizes of the TLVs of the header h
SizesAgree(h) ==
    /\ "header_size" \in DOMAIN h.fields
    /\ TotalSize(h.tlvs).err = "none"
    /\ h.fields["header_size"] = 16 + TotalSize(h.tlvs).val

\* the header was parsed from a well-formed buffer of an application
FromWellFormedApp ==
    /\ full_buffer # None
    /\ WellFormedV2(full_buffer)
    /\ Wire16(full_buffer, 3) > 16

\* the call l is a modify_tlv that sets header_size itself or replaces an
\* attribute whose length is the length of the record
Resizing(l) ==
    /\ l.op = "modify_tlv"
    /\ \/ l.args[1] = 0 /\ l.args[2] = "header_size"
       \/ l.args[1] # 0 /\ l.args[2] \in {"package_name", "buffer", "writeable_flash_regions"}

MutatorOps == {"set_flag", "set_app_size", "delete_tlv", "modify_tlv",
               "adjust_starting_address"}

\* C2: after any sequence of mutator calls on a version-2 application
\* header parsed from a well-formed buffer, header_size is 16 plus the sum
\* of get_size() over its TLVs.
C2_HeaderSizeAlways ==
    (pc \in {"header", "packed"} /\ FromWellFormedApp) => SizesAgree(Self)

\* header_size agrees with the TLVs once the header is parsed, and every
\* mutator call keeps it so, except a modify_tlv that sets header_size or
\* replaces a variable-length attribute
HeaderSizeKept ==
    /\ []((pc = "header" /\ last.op = "TBFHeader" /\ FromWellFormedApp) => SizesAgree(Self))
    /\ [][(FromWellFormedApp /\ pc = "header" /\ SizesAgree(Self) /\ ~Resizing(last'))
            => SizesAgree(Self')]_vars

\* the positions of the TLVs of ts with the id tlvid
Matching(ts, tlvid) == {i \in 1..Len(ts) : get_tlvid(ts[i]) = tlvid}

\* header_size plus the protected size of the first TLV with id tlvid of the
\* header h
SizeBefore(h, tlvid) ==
    h.fields["header_size"] + h.tlvs[_get_tlv(h.tlvs, tlvid)].a["protected_size"]

\* what C3 states of a call delete_tlv(tlvid) that took the header from
\* `before` to `after`
Deleted(before, tlvid, after) ==
    LET m == Matching(before.tlvs, tlvid)
        s == SumSizes(before.tlvs, tlvid)
        kept == SelectSeq(before.tlvs, LAMBDA t : get_tlvid(t) # tlvid)
    IN  /\ Matching(after.tlvs, tlvid) = {}
        /\ Len(after.tlvs) = Len(before.tlvs) - Cardinality(m)
        /\ \A i \in 1..Len(after.tlvs) :
              get_tlvid(kept[i]) \notin {1, 9} => after.tlvs[i] = kept[i]
        /\ s.err = "none" => after.fields["header_size"] = before.fields["header_size"] - s.val
        /\ \A id \in {1, 9} :
              _get_tlv(after.tlvs, id) # 0 => SizeBefore(after, id) = SizeBefore(before, id)
        /\ m # {} => after.modified
        /\ m = {} => /\ after.fields = before.fields
                     /\ after.tlvs = before.tlvs
                     /\ after.modified = before.modified

\* C3: delete_tlv(tlvid) on a version-2 header removes every TLV with that
\* id, decreases header_size by their serialized size, keeps header_size +
\* protected_size of the first Main and the first Program TLV that remain,
\* sets modified when something was removed and changes nothing otherwise.
C3_DeleteTlv ==
    (last.op = "delete_tlv" /\ last.before.version = 2
        /\ "header_size" \in DOMAIN last.before.fields)
        => Deleted(last.before, last.args[1], Self)

\* the same of the calls in which every matching TLV can be serialized
DeleteTlvSerializable ==
    (last.op = "delete_tlv" /\ last.before.version = 2
        /\ "header_size" \in DOMAIN last.before.fields
        /\ SumSizes(last.before.tlvs, last.args[1]).err = "none")
        => (err = "none" /\ Deleted(last.before, last.args[1], Self))

\* the call adjust_starting_address(address) that gave this state, on a
\* header with a FixedAddress TLV and a Main or Program TLV
Adjusted ==
    /\ last.op = "adjust_starting_address"
    /\ "header_size" \in DOMAIN last.before.fields
    /\ _get_tlv(last.before.tlvs, 5) # 0
    /\ _get_binary_tlv(last.before.tlvs) # 0

\* F - (address + H + P) of that call
Delta ==
    LET b == last.before IN
    b.tlvs[_get_tlv(b.tlvs, 5)].a["fixed_address_flash"]
        - (last.args[1] + b.fields["header_size"]
             + b.tlvs[_get_binary_tlv(b.tlvs)].a["protected_size"])

\* the header holds what `before` held but for the attributes named in
\* grown of its Main or Program TLV, which are greater by delta
GrownBy(before, delta, grown) ==
    LET p == _get_binary_tlv(before.tlvs) IN
    /\ version = before.version /\ valid = before.valid /\ app = before.app
    /\ fields = before.fields
    /\ Len(tlvs) = Len(before.tlvs)
    /\ \A i \in 1..Len(tlvs) :
        /\ tlvs[i].cls = before.tlvs[i].cls
        /\ DOMAIN tlvs[i].a = DOMAIN before.tlvs[i].a
        /\ \A n \in DOMAIN tlvs[i].a :
              tlvs[i].a[n] = IF i = p /\ n \in grown THEN before.tlvs[i].a[n] + delta
                             ELSE before.tlvs[i].a[n]

\* what C4 states of every outcome of the call but the growth
AdjustedOtherwise ==
    /\ (Adjusted /\ Delta < 0) => err = "TockLoaderException"
    /\ (Adjusted /\ Delta = 0) => (err = "none" /\ GrownBy(last.before, 0, {}))
    /\ (last.op = "adjust_starting_address" /\ _get_tlv(last.before.tlvs, 5) = 0)
          => (err = "none" /\ GrownBy(last.before, 0, {}))

\* C4 as stated: when address + H + P < F the call increases P by
\* F - (address + H + P) and leaves every other field untouched; it raises
\* when address + H + P > F and changes nothing when they are equal or
\* there is no FixedAddress TLV.
C4_AdjustProtectedOnly ==
    /\ (Adjusted /\ Delta > 0)
          => (err = "none" /\ GrownBy(last.before, Delta, {"protected_size"}))
    /\ AdjustedOtherwise

\* C4, amended: when address + H + P < F the call increases P and the
\* init_fn_offset of the same TLV by F - (address + H + P) and leaves every
\* other field untouched; the other outcomes are as stated.
C4_Adjust ==
    /\ (Adjusted /\ Delta > 0)
          => (err = "none"
              /\ GrownBy(last.before, Delta, {"protected_size", "init_fn_offset"}))
    /\ AdjustedOtherwise

\* a call that grew a Program TLV whose protected size was not zero
C4_Witness ==
    /\ Adjusted
    /\ Delta = 4
    /\ err = "none"
    /\ last.before.tlvs[_get_binary_tlv(last.before.tlvs)].a["protected_size"] = 8
    /\ tlvs[_get_binary_tlv(tlvs)].a["protected_size"] = 12
    /\ tlvs[_get_binary_tlv(tlvs)].cls = "Program"

\* C5: a mutator called on a version-1 header or on a header that is not
\* valid changes nothing and raises nothing.
C5_NoOpUnlessValidV2 ==
    (last.op \in MutatorOps /\ (last.before.version = 1 \/ ~last.before.valid))
        => (err = "none" /\ Self = last.before)

\* C6: modified is False after construction, it is True after every mutator
\* call that changed a field or a TLV, and it is never reset.
C6_Modified ==
    /\ last.op = "TBFHeader" => ~is_modified(Self)
    /\ last.op \in MutatorOps =>
          /\ (fields # last.before.fields \/ tlvs # last.before.tlvs) => is_modified(Self)
          /\ is_modified(last.before) => is_modified(Self)

\* full_buffer holds the base fields of a version-2 header and its first
\* header_size bytes, and TBFHeader(full_buffer) returned
ParsedV2 ==
    /\ pc \in {"header", "packed"}
    /\ full_buffer # None
    /\ Len(full_buffer) >= 16
    /\ Wire16(full_buffer, 1) = 2
    /\ Wire16(full_buffer, 3) >= 16
    /\ Len(full_buffer) >= Wire16(full_buffer, 3)

\* the number whose little-endian bytes are c
Number(c) == c[1] + 256 * c[2] + 65536 * c[3] + 16777216 * c[4]

\* b with the bytes c in its checksum field
WithChecksumField(b, c) == [i \in 1..Len(b) |-> IF i \in 13..16 THEN c[i - 12] ELSE b[i]]

ChecksumFields == {<<0, 0, 0, 0>>, <<1, 2, 3, 4>>, <<255, 255, 255, 127>>}

\* C7: the checksum the version-2 parser computes is the exclusive-or of the
\* little-endian words of the first header_size bytes, zero-padded to whole
\* words, with the bytes 12..15 taken as zero; it is the same whatever
\* those bytes hold; and parsing leaves the buffer of the caller as it was.
C7_Checksum ==
    /\ [](ParsedV2 =>
            /\ checksum = Number(ChecksumBytes(full_buffer))
            /\ \A c \in ChecksumFields :
                  TBFHeader(WithChecksumField(full_buffer, c)).checksum = checksum)
    /\ [][full_buffer' = full_buffer]_vars

\* a header whose size is no multiple of 4 and whose stored checksum, not
\* zero, is the one computed
C7_Witness ==
    /\ ParsedV2
    /\ Wire16(full_buffer, 3) % 4 = 2
    /\ SubSeq(full_buffer, 13, 16) # <<0, 0, 0, 0>>
    /\ checksum = Number(SubSeq(full_buffer, 13, 16))
    /\ checksum = Number(ChecksumBytes(full_buffer))

\* the 16 bytes of a padding header of total size size, checksum field zero
PaddingBytes(size) == LE16(2) \o LE16(16) \o LE32(size) \o LE32(0) \o Zeros(4)

\* C8: TBFHeaderPadding(size) is a version-2 header with header_size 16,
\* total_size size, flags 0, valid and no application, and the checksum it
\* stores is the checksum of its 16 bytes with the checksum field zero, the
\* value get_binary() writes at offset 12.
C8_Padding ==
    (pc = "header" /\ last.op = "TBFHeaderPadding") =>
        /\ version = 2
        /\ fields["header_size"] = 16
        /\ fields["total_size"] = last.args[1]
        /\ fields["flags"] = 0
        /\ is_valid(Self)
        /\ ~is_app(Self)
        /\ fields["checksum"] = Number(ChecksumBytes(PaddingBytes(last.args[1])))
        /\ fields["checksum"] = U32(get_binary(Self).val, 12)

HashTypes == {CREDENTIALS_TYPE_SHA256, CREDENTIALS_TYPE_SHA384, CREDENTIALS_TYPE_SHA512}

\* the digest a credential of the hash type t holds of blob
DigestOf(t, blob) ==
    CASE t = CREDENTIALS_TYPE_SHA256 -> sha256(blob)
      [] t = CREDENTIALS_TYPE_SHA384 -> sha384(blob)
      [] t = CREDENTIALS_TYPE_SHA512 -> sha512(blob)

RECURSIVE WireCredentials(_)
\* the hash credentials of the footer bytes s, in order: type and body of
\* every Credentials record that lies whole in s
WireCredentials(s) ==
    IF Len(s) < 4 THEN <<>>
    ELSE LET length == Wire16(s, 3)
             rest == Drop(s, 4)
             here == IF /\ Wire16(s, 1) = 128
                        /\ Len(rest) >= length
                        /\ length >= 4
                        /\ rest[2] = 0 /\ rest[3] = 0 /\ rest[4] = 0
                        /\ rest[1] \in HashTypes
                     THEN <<[credentials_type |-> rest[1], body |-> SubSeq(rest, 5, length)]>>
                     ELSE <<>>
         IN  here \o WireCredentials(Drop(rest, length))

RECURSIVE EndsInFragment(_)
\* the records of the footer bytes s leave 1 to 3 bytes, too few for the
\* prefix of a record
EndsInFragment(s) ==
    IF Len(s) = 0 THEN FALSE
    ELSE IF Len(s) < 4 THEN TRUE
    ELSE EndsInFragment(Drop(s, 4 + Wire16(s, 3)))

----------------------------------------------------------------------------
(* The validity of a parsed credential.                                    *)

RECURSIVE FooterRecords(_)
\* the records of the footer bytes s, in order: type id, declared length and
\* the bytes present of the payload of each
FooterRecords(s) ==
    IF Len(s) < 4 THEN <<>>
    ELSE LET length == Wire16(s, 3)
             rest == Drop(s, 4)
         IN  <<[tipe |-> Wire16(s, 1), length |-> length,
                payload |-> SubSeq(rest, 1, Min(length, Len(rest)))]>>
                 \o FooterRecords(Drop(rest, length))

\* the Credentials records of the footer bytes s that lie whole in s
WholeCredentials(s) ==
    SelectSeq(FooterRecords(s),
              LAMBDA r : r.tipe = 128 /\ Len(r.payload) = r.length)

\* the credential type a payload is tagged with, Unset when it has no tag
TypeTag(payload) ==
    IF Len(payload) >= 4 /\ payload[2] = 0 /\ payload[3] = 0 /\ payload[4] = 0
    THEN payload[1] ELSE Unset

\* the body lengths at which a credential of the type t is well-formed:
\* a digest of 256, 384 or 512 bits, a 512-byte modulus and a 512-byte
\* signature, anything for Reserved
BodyLengths(t) ==
    CASE t = CREDENTIALS_TYPE_SHA256 -> {32}
      [] t = CREDENTIALS_TYPE_SHA384 -> {48}
      [] t = CREDENTIALS_TYPE_SHA512 -> {64}
      [] t = CREDENTIALS_TYPE_RSA4096KEY -> {1024}
      [] t = CREDENTIALS_TYPE_RESERVED -> 0..65535

LengthCheckedTypes ==
    HashTypes \cup {CREDENTIALS_TYPE_RSA4096KEY, CREDENTIALS_TYPE_RESERVED}

\* C11: a parsed Credentials TLV is valid exactly when the body after its
\* 4-byte type tag has the length of its type: 32 bytes for SHA256, 48 for
\* SHA384, 64 for SHA512, 1024 for RSA4096KEY, any length for Reserved.
C11_ValidLength ==
    pc = "footer" /\ err = "none" =>
        LET wire == WholeCredentials(footer_buffer) IN
        /\ Len(footer_tlvs) = Len(wire)
        /\ \A i \in 1..Len(wire) :
            LET t == TypeTag(wire[i].payload) IN
            t \in LengthCheckedTypes =>
                (footer_tlvs[i].a["valid"] <=> Len(wire[i].payload) - 4 \in BodyLengths(t))

\* the credentials are read in wire order and keep the body they carry
C11_ReadInOrder ==
    pc = "footer" /\ err = "none" =>
        LET wire == WholeCredentials(footer_buffer) IN
        /\ Len(footer_tlvs) = Len(wire)
        /\ \A i \in 1..Len(wire) :
            TypeTag(wire[i].payload) \in LengthCheckedTypes =>
                /\ footer_tlvs[i].a["credentials_type"] = TypeTag(wire[i].payload)
                /\ footer_tlvs[i].a["buffer"] = Drop(wire[i].payload, 4)

----------------------------------------------------------------------------
(* One parsed record per wire record.                                      *)

RECURSIVE HeaderRecords(_)
\* the records of the TLV bytes s of a header, in order: type id, declared
\* length and the bytes present of the payload of each
HeaderRecords(s) ==
    IF Len(s) < 4 THEN <<>>
    ELSE LET length == Wire16(s, 3)
             rest == Drop(s, 4)
         IN  <<[tipe |-> Wire16(s, 1), length |-> length,
                payload |-> SubSeq(rest, 1, Min(length, Len(rest)))]>>
                 \o HeaderRecords(Drop(rest, roundup(length, 4)))

\* the TLV bytes of the header full_buffer holds: those after the base fields
\* and inside header_size
HeaderRegion == SubSeq(full_buffer, 17, Wire16(full_buffer, 3))

\* every record of s has its whole payload in s
WholeRecords(s) == \A i \in DOMAIN HeaderRecords(s) :
                        Len(HeaderRecords(s)[i].payload) = HeaderRecords(s)[i].length

\* the type ids whose payload length the parser checks
FixedLayoutIds == {1, 9, 4, 5, 8, 2}

\* tlvs holds a record for each wire record, in wire order, those of a known
\* type and a wrong length marked not-valid
RecordPerWireRecord(wire) ==
    /\ Len(tlvs) = Len(wire)
    /\ \A i \in 1..Len(wire) :
        /\ get_tlvid(tlvs[i]) = wire[i].tipe
        /\ (wire[i].tipe \in FixedLayoutIds /\ ~CorrectlySized(wire[i].tipe, wire[i].length))
                => tlvs[i].a["valid"] = FALSE

\* C12: when the parser meets a record of a known type id (Main, Program,
\* PicOption1, FixedAddress, KernelVersion, WriteableFlashRegions) whose
\* payload length does not fit the variant, it keeps a not-valid record of
\* that variant at that position, so that the parsed list has one record per
\* wire record, in wire order.
C12_RecordPerWireRecord ==
    (ParsedV2 /\ Wire16(full_buffer, 3) > 16 /\ WholeRecords(HeaderRegion))
        => RecordPerWireRecord(HeaderRecords(HeaderRegion))

\* the part of C12 the parser keeps: when the only wrongly sized records are
\* WriteableFlashRegions records, there is one record per wire record
C12_RegionsKept ==
    (/\ ParsedV2 /\ Wire16(full_buffer, 3) > 16 /\ WholeRecords(HeaderRegion)
     /\ \A i \in DOMAIN HeaderRecords(HeaderRegion) :
            LET r == HeaderRecords(HeaderRegion)[i] IN
            r.tipe # 2 => CorrectlySized(r.tipe, r.length))
        => RecordPerWireRecord(HeaderRecords(HeaderRegion))

----------------------------------------------------------------------------
(* Constructing a header from arbitrary bytes.                             *)

\* TBFHeader(full_buffer) has been called
Constructed == pc # "new" /\ last.op = "TBFHeader"

\* b ends before its version, before the base fields of its version, or
\* before the header_size it declares
TooShort(b) ==
    \/ Len(b) < 2
    \/ Wire16(b, 1) = 1 /\ Len(b) < 76
    \/ Wire16(b, 1) = 2 /\ Len(b) < 16
    \/ Wire16(b, 1) = 2 /\ Len(b) >= 16 /\ Len(b) < Wire16(b, 3)

\* the position of the first record of wire whose declared length exceeds
\* the bytes left in the header, Len(wire) + 1 when there is none
FirstOverrun(wire) ==
    LET over == {i \in 1..Len(wire) : Len(wire[i].payload) < wire[i].length} IN
    IF over = {} THEN Len(wire) + 1 ELSE CHOOSE i \in over : \A j \in over : i <= j

\* the buffer is too short: the header is neither valid nor an app
ShortIsInvalid == TooShort(full_buffer) => ~is_valid(Self) /\ ~is_app(Self)

\* no record is built from an overrunning record or from what follows it
StopsAtOverrun ==
    (ParsedV2 /\ Wire16(full_buffer, 3) > 16)
        => Len(tlvs) < FirstOverrun(HeaderRecords(HeaderRegion))

\* C13: constructing a TBFHeader from any byte buffer raises no exception; a
\* buffer shorter than 2 bytes, than its base fields or than its declared
\* header_size gives a header with valid false and is_app false; a record
\* whose declared length exceeds the bytes remaining in the header ends the
\* parsing loop and nothing is read for it past the header.
C13_Construction ==
    Constructed => /\ err = "none"
                   /\ ShortIsInvalid
                   /\ StopsAtOverrun

\* the parts of C13 that hold whatever the bytes are: no struct.error from a
\* short read, and a too short buffer is neither valid nor an app
C13_ShortBuffers ==
    Constructed => /\ err \in {"none", "UnicodeDecodeError"}
                   /\ ShortIsInvalid

\* the record that runs past the header is dropped unless its type is unknown
C13_KnownOverrun ==
    (Constructed /\ err = "none" /\ ParsedV2 /\ Wire16(full_buffer, 3) > 16)
        => LET wire == HeaderRecords(HeaderRegion)
               k == FirstOverrun(wire)
           IN  (k <= Len(wire) /\ wire[k].tipe \in FixedLayoutIds \cup {3}) => Len(tlvs) < k

----------------------------------------------------------------------------
(* modify_tlv.                                                             *)

\* the last call was modify_tlv(tlvid, field, value)
Modified(tlvid, field, value) ==
    last.op = "modify_tlv" /\ last.args = <<tlvid, field, value>>

\* the positions of the TLVs of h with the type id tlvid
Positions(h, tlvid) == {i \in 1..Len(h.tlvs) : get_tlvid(h.tlvs[i]) = tlvid}

\* what C14 states of the call modify_tlv(tlvid, field, value) on before
ModifyTlvContract(before, tlvid, field, value) ==
    LET match == Positions(before, tlvid)
        lacking == {i \in match : ~HasAttr(before.tlvs[i], field)}
    IN  IF tlvid = 0
        THEN /\ err = "none"
             /\ field \in DOMAIN fields /\ fields[field] = value
             /\ \A f \in DOMAIN before.fields \ {field} :
                    f \in DOMAIN fields /\ fields[f] = before.fields[f]
             /\ tlvs = before.tlvs
        ELSE IF match = {} THEN err = "none" /\ Self = before
        ELSE IF lacking # {}
        THEN /\ err = "TockLoaderException"
             /\ tlvs = before.tlvs /\ fields = before.fields /\ modified = before.modified
        ELSE /\ err = "none"
             /\ Len(tlvs) = Len(before.tlvs)
             /\ \A i \in 1..Len(tlvs) :
                    tlvs[i] = IF i \in match THEN SetAttr(before.tlvs[i], field, value)
                              ELSE before.tlvs[i]
             /\ fields = before.fields
             /\ is_modified(Self)

\* C14: modify_tlv(id, field, value) with id other than 0 sets field to
\* value on every TLV with that id and sets modified; if a matching TLV has
\* no such field it raises TockLoaderException and leaves every TLV, every
\* base field and modified as they were; when no TLV matches nothing
\* changes; with id 0 it sets the base field.
C14_ModifyTlv ==
    \A c \in ModifyCalls :
        Modified(c[1], c[2], c[3]) => ModifyTlvContract(last.before, c[1], c[2], c[3])

\* C14 holds of every call but one that raises after a matching TLV that has
\* the field
C14_UnlessLaterLacking ==
    \A c \in ModifyCalls :
        (/\ Modified(c[1], c[2], c[3])
         /\ LET match == Positions(last.before, c[1]) IN
            \A i \in match : ~HasAttr(last.before.tlvs[i], c[2]) =>
                \A j \in match : j < i => ~HasAttr(last.before.tlvs[j], c[2]))
            => ModifyTlvContract(last.before, c[1], c[2], c[3])

----------------------------------------------------------------------------
(* Packing a parsed record.                                                *)

\* the bytes of a record of the given type and payload: type, unpadded
\* length, payload, zero bytes up to the next multiple of 4
Padded(tipe, payload) ==
    LE16(tipe) \o LE16(Len(payload)) \o payload
        \o Zeros(roundup(Len(payload), 4) - Len(payload))

\* pack() and get_size() of tlv are those of the wire record r
PacksAs(tlv, r) ==
    /\ pack(tlv) = Ok(Padded(r.tipe, r.payload))
    /\ Len(pack(tlv).val) % 4 = 0
    /\ get_size(tlv) = Ok(roundup(4 + Len(r.payload), 4))

\* the parser built one record from each wire record of the header
OnePerWireRecord ==
    /\ ParsedV2
    /\ WholeRecords(HeaderRegion)
    /\ Len(tlvs) = Len(HeaderRecords(HeaderRegion))

\* C15: for every TLV record obtained by parsing a header, pack() returns
\* the 16-bit type id, the 16-bit unpadded payload length, the payload and
\* zero bytes up to the next 4-byte boundary, its length is a multiple of 4
\* and get_size() equals roundup(4 + payload length, 4); a 12-byte Main
\* payload packs back to the 16 bytes it was parsed from.
C15_Pack ==
    OnePerWireRecord =>
        \A i \in 1..Len(tlvs) : PacksAs(tlvs[i], HeaderRecords(HeaderRegion)[i])

\* C15 holds of every record but a WriteableFlashRegions record parsed from
\* a payload that is not a multiple of 8 bytes
C15_PackUnlessRegionless ==
    OnePerWireRecord =>
        \A i \in 1..Len(tlvs) :
            (tlvs[i].cls = "WriteableFlashRegions" => HasAttr(tlvs[i], "writeable_flash_regions"))
                => PacksAs(tlvs[i], HeaderRecords(HeaderRegion)[i])

----------------------------------------------------------------------------
(* Parsing what a mutated header serializes to.                            *)

\* get_binary() has been called on a version-2 app header parsed from a
\* well-formed buffer
RepackedApp == Serialized /\ WellFormedV2(full_buffer) /\ Len(full_buffer) > 16

\* the header TBFHeader makes of the bytes get_binary() returned
Reparsed == TBFHeader(binary.val)

\* C16: after any sequence of set_flag, set_app_size, delete_tlv and
\* adjust_starting_address calls on a version-2 app header parsed from a
\* well-formed buffer, parsing the output of get_binary() yields a header
\* whose stored checksum equals its recomputed checksum and whose
\* header_size, total_size, flags and ordered TLV records are those of the
\* mutated header.
C16_Reparse ==
    RepackedApp =>
        /\ binary.err = "none"
        /\ Reparsed.err = "none"
        /\ Reparsed.fields["checksum"] = Reparsed.checksum
        /\ Reparsed.fields["header_size"] = fields["header_size"]
        /\ Reparsed.fields["total_size"] = fields["total_size"]
        /\ Reparsed.fields["flags"] = fields["flags"]
        /\ Reparsed.tlvs = tlvs

\* a package name deleted from a header with a Main and a protected Program
\* record and the app disabled: header_size 56, both protected sizes grown
\* by the 8 bytes of the name record, and the reparsed records are the
\* mutated ones
C16_Witness ==
    /\ RepackedApp
    /\ HeaderRegion = WMain \o WProgramProtected \o WName
    /\ nops = 2
    /\ fields["header_size"] = 56
    /\ fields["flags"] = 0
    /\ Len(tlvs) = 2
    /\ tlvs[1].a["protected_size"] = 8
    /\ tlvs[2].a["protected_size"] = 16
    /\ Len(binary.val) = 72
    /\ Reparsed.tlvs = tlvs
    /\ Reparsed.fields["header_size"] = 56

----------------------------------------------------------------------------
(* delete_tlv and the position of the application binary.                  *)

\* the last call was delete_tlv on a version-2 header, and the header still
\* has a Main or a Program TLV
DeletedKeepingBinaryTlv ==
    /\ last.op = "delete_tlv"
    /\ last.before.version = 2
    /\ "header_size" \in DOMAIN last.before.fields
    /\ _get_binary_tlv(tlvs) # 0

\* the Program TLV was deleted from a header that has a Main TLV of another
\* protected size
ProgramDeletedFromUnequal ==
    LET b == last.before
        m == _get_tlv(b.tlvs, HEADER_TYPE_MAIN)
        p == _get_tlv(b.tlvs, HEADER_TYPE_PROGRAM)
    IN  /\ last.args[1] = HEADER_TYPE_PROGRAM
        /\ m # 0 /\ p # 0
        /\ b.tlvs[m].a["protected_size"] # b.tlvs[p].a["protected_size"]

\* C17: delete_tlv(id), whatever the id, on a version-2 header that still
\* has a Main or Program TLV after the call leaves get_size_before_app()
\* unchanged, also when the header has both a Main and a Program TLV and
\* the deleted record is one of them.
C17_SizeBeforeApp ==
    DeletedKeepingBinaryTlv =>
        /\ get_size_before_app(Self).err = "none"
        /\ get_size_before_app(Self) = get_size_before_app(last.before)

\* C17 holds of every call but the deletion of the Program TLV from a header
\* whose Main TLV has another protected size; there the value moves by the
\* difference of the two protected sizes
C17_UnlessProgramDeleted ==
    DeletedKeepingBinaryTlv =>
        LET b == last.before IN
        /\ get_size_before_app(Self).err = "none"
        /\ get_size_before_app(Self).val =
            IF ProgramDeletedFromUnequal
            THEN b.fields["header_size"]
                    + b.tlvs[_get_tlv(b.tlvs, HEADER_TYPE_MAIN)].a["protected_size"]
            ELSE get_size_before_app(b).val

----------------------------------------------------------------------------
(* Constructing a footer from arbitrary bytes.                             *)

\* TBFFooter(header, app_binary, footer_buffer) has been called with a
\* header whose binary, if it is asked for, can be produced
FooterConstructed ==
    /\ pc = "footer"
    /\ app_binary # None => get_binary(last.before).err = "none"

\* footer_tlvs holds, in wire order, the Credentials records that lie whole
\* in footer_buffer, and nothing else
HoldsWholeCredentials ==
    LET wire == WholeCredentials(footer_buffer) IN
    /\ Len(footer_tlvs) = Len(wire)
    /\ \A i \in 1..Len(wire) :
        /\ footer_tlvs[i].cls = "Credentials"
        /\ TypeTag(wire[i].payload) \in LengthCheckedTypes =>
            /\ footer_tlvs[i].a["credentials_type"] = TypeTag(wire[i].payload)
            /\ footer_tlvs[i].a["buffer"] = Drop(wire[i].payload, 4)
        /\ TypeTag(wire[i].payload) \notin LengthCheckedTypes =>
            /\ ~footer_tlvs[i].a["valid"]
            /\ ~HasAttr(footer_tlvs[i], "buffer")

\* C18: constructing a TBFFooter terminates and raises no error for every
\* footer buffer, also one that leaves 1 to 3 bytes after its last record
\* or whose last record declares more bytes than remain; the TLV list holds,
\* in wire order, exactly the Credentials (0x80) records whose declared
\* payload is fully present; records of other type ids are skipped by
\* advancing 4 + declared length, without rounding.
C18_FooterConstruction ==
    FooterConstructed => err = "none" /\ HoldsWholeCredentials

\* C18 holds of every footer buffer whose records leave no 1 to 3 bytes
C18_UnlessFragment ==
    (FooterConstructed /\ ~EndsInFragment(footer_buffer))
        => err = "none" /\ HoldsWholeCredentials

\* with 1 to 3 bytes left the constructor raises struct.error
C18_FragmentRaises ==
    (FooterConstructed /\ EndsInFragment(footer_buffer)) => err = "struct.error"

----------------------------------------------------------------------------
(* Serializing a version-1 header.                                         *)

\* get_binary() has been called on a valid version-1 header
SerializedV1 == pc = "packed" /\ last.op = "get_binary" /\ version = 1 /\ is_valid(Self)

\* C19: for a valid version-1 header get_binary() returns, without raising,
\* the version, the 17 non-checksum fields and a freshly computed checksum,
\* and parsing that output yields a valid version-1 header with the same
\* field values.
C19_V1RoundTrip ==
    SerializedV1 =>
        /\ binary.err = "none"
        /\ Len(binary.val) = 76
        /\ SubSeq(binary.val, 1, 4) = LE32(1)
        /\ \A i \in 1..17 : SubSeq(binary.val, 4 * i + 1, 4 * i + 4) = LE32(fields[V1Fields[i]])
        /\ SubSeq(binary.val, 73, 76) = LE32(_checksum(SubSeq(binary.val, 1, 72)))
        /\ Reparsed.err = "none"
        /\ Reparsed.version = 1
        /\ is_valid(Reparsed)
        /\ Reparsed.fields = fields

\* get_binary() on a valid version-1 header raises struct.error
C19_V1Raises == SerializedV1 => binary.err = "struct.error"

----------------------------------------------------------------------------
(* Where the bytes of a parsed record come from.                           *)

\* the payload the record tlv holds: what pack() emits after the prefix, as
\* long as the length it declares
Payload(tlv) ==
    LET p == pack(tlv).val IN SubSeq(p, 5, 4 + Wire16(p, 3))

\* the payload of tlv lies in s behind a prefix with the type id of tlv
LiesIn(tlv, s) ==
    LET payload == Payload(tlv) IN
    \E off \in 0..Len(s) :
        /\ off + 4 + Len(payload) <= Len(s)
        /\ Wire16(s, off + 1) = get_tlvid(tlv)
        /\ SubSeq(s, off + 5, off + 4 + Len(payload)) = payload

\* the records of the given classes hold bytes of the header only
HeldInsideHeader(classes) ==
    (ParsedV2 /\ Wire16(full_buffer, 3) > 16) =>
        \A i \in 1..Len(tlvs) :
            (tlvs[i].cls \in classes /\ pack(tlvs[i]).err = "none")
                => LiesIn(tlvs[i], HeaderRegion)

KnownClasses == {"Main", "Program", "WriteableFlashRegions", "PackageName",
                 "PicOption1", "FixedAddress", "KernelVersion"}

\* C20: every TLV record produced by parsing a version-2 header, Unknown
\* records included, holds only payload bytes that lie inside the first
\* header_size bytes of the buffer; a record whose declared length exceeds
\* the bytes remaining in the header is never built from bytes after it.
C20_InsideHeader == HeldInsideHeader(KnownClasses \cup {"Unknown"})

\* C20 holds of the records of the known types
C20_KnownInsideHeader == HeldInsideHeader(KnownClasses)

----------------------------------------------------------------------------
(* Serializing whatever was constructed.                                   *)

\* get_binary() has been called on a header of version 1 or 2 as its
\* constructor returned it
HeaderSerialized ==
    pc = "packed" /\ last.op = "get_binary" /\ nops = 0 /\ version \in {1, 2}

\* get_binary() has been called on a footer as its constructor returned it
FooterSerialized ==
    pc = "footer_packed" /\ nops = 0

\* every record of ts has the attributes its pack() reads
Packable(ts) ==
    \A i \in 1..Len(ts) :
        /\ ts[i].cls = "WriteableFlashRegions" => HasAttr(ts[i], "writeable_flash_regions")
        /\ ts[i].cls = "Credentials" => HasAttr(ts[i], "buffer") /\ HasAttr(ts[i], "credentials_type")

\* C21: get_binary() raises no error on a TBFHeader of version 1 or 2 or a
\* TBFFooter whose construction from a buffer returned without error; every
\* record of a parsed TLV list, a WriteableFlashRegions record of any length
\* and a Credentials record of any type or length included, can be packed.
C21_GetBinary ==
    /\ HeaderSerialized => /\ binary.err = "none"
                           /\ \A i \in 1..Len(tlvs) : pack(tlvs[i]).err = "none"
    /\ FooterSerialized => /\ binary.err = "none"
                           /\ \A i \in 1..Len(footer_tlvs) : pack(footer_tlvs[i]).err = "none"

\* the constructor read the base fields of the header
BaseFieldsRead == "total_size" \in DOMAIN fields

\* get_binary() returns for the version-2 headers whose base fields were
\* read and the footers, when all their records have the attributes pack()
\* reads
C21_UnlessAttributeMissing ==
    /\ (HeaderSerialized /\ version = 2 /\ BaseFieldsRead /\ Packable(tlvs))
            => binary.err = "none"
    /\ (FooterSerialized /\ Packable(footer_tlvs)) => binary.err = "none"

\* and it raises AttributeError for the others, struct.error for version 1,
\* KeyError for a buffer that ends before the base fields
C21_Raises ==
    /\ (HeaderSerialized /\ ~BaseFieldsRead) => binary.err = "KeyError"
    /\ (HeaderSerialized /\ version = 2 /\ is_app(Self) /\ ~Packable(tlvs))
            => binary.err = "AttributeError"
    /\ (HeaderSerialized /\ version = 1 /\ BaseFieldsRead) => binary.err = "struct.error"
    /\ (FooterSerialized /\ version = 2 /\ ~Packable(footer_tlvs))
            => binary.err = "AttributeError"

----------------------------------------------------------------------------
(* Verified credentials.                                                   *)

\* C22: in every footer, after construction and after any number of
\* verify_credentials calls, a Credentials record whose verified status is
\* "yes" has valid true: a record marked not-valid is never reported as
\* verified.
C22_VerifiedIsValid ==
    FooterExists =>
        \A i \in 1..Len(footer_tlvs) :
            footer_tlvs[i].a["verified"] = "yes" => footer_tlvs[i].a["valid"]

\* what holds instead: a hash credential is verified "yes" only when its
\* body is as long as the digest of its type, and then it is marked
\* not-valid
C22_VerifiedIsNotValid ==
    FooterExists =>
        \A i \in 1..Len(footer_tlvs) :
            (/\ footer_tlvs[i].a["verified"] = "yes"
             /\ footer_tlvs[i].a["credentials_type"] \in HashTypes)
                => /\ Len(footer_tlvs[i].a["buffer"])
                        \in BodyLengths(footer_tlvs[i].a["credentials_type"])
                   /\ ~footer_tlvs[i].a["valid"]

----------------------------------------------------------------------------
(* The footer a header states.                                             *)

\* a version-2 header has been parsed, and set_app_size and modify_tlv may
\* have been called on it
ParsedOrResized ==
    /\ pc = "header"
    /\ version = 2
    /\ last.op \in {"TBFHeader", "set_app_size", "modify_tlv"}

\* the header has a Program TLV
HasProgram == _get_tlv(tlvs, HEADER_TYPE_PROGRAM) # 0

\* the four queries return, and their values agree
FooterQueriesAgree ==
    /\ has_footer(Self).err = "none"
    /\ get_footer_size(Self).err = "none"
    /\ get_binary_end_offset(Self).err = "none"
    /\ get_app_size(Self).err = "none"
    /\ has_footer(Self).val <=> get_footer_size(Self).val > 0
    /\ get_binary_end_offset(Self).val + get_footer_size(Self).val = get_app_size(Self).val
    /\ ~HasProgram => ~has_footer(Self).val /\ get_footer_size(Self).val = 0

\* C23: for every parsed version-2 header and after any set_app_size or
\* modify_tlv call, has_footer() is true iff get_footer_size() > 0,
\* get_footer_size() is never negative, and get_binary_end_offset() +
\* get_footer_size() == get_app_size(); a header without a Program TLV has
\* has_footer() false and get_footer_size() 0.
C23_FooterSize ==
    ParsedOrResized => /\ FooterQueriesAgree
                       /\ get_footer_size(Self).val >= 0

\* C23 without the sign of get_footer_size(), for the headers whose base
\* fields were read
C23_QueriesAgree ==
    (ParsedOrResized /\ BaseFieldsRead) => FooterQueriesAgree

\* get_footer_size() is negative exactly when the Program TLV states an end
\* of the binary past total_size, and has_footer() is false then
C23_NegativeFooter ==
    (ParsedOrResized /\ BaseFieldsRead) =>
        /\ get_footer_size(Self).val < 0
            <=> (HasProgram /\ get_binary_end_offset(Self).val > fields["total_size"])
        /\ get_footer_size(Self).val < 0 => ~has_footer(Self).val

====
